---- MODULE Spec2Model ----
(***************************************************************************)
(* Signalling and stream-routing node (WebRTC-Stream-Router).              *)
(*                                                                         *)
(* The repository holds several iterations of the same design:             *)
(*   - the live-channel node (src/unnamed/part_003, lines 1-546):          *)
(*     InboundClient / OutboundClient / Management over web sockets;       *)
(*   - the relay node (src/unnamed/part_001): ClientManager,               *)
(*     ConnectionManager and SignalManager over directory documents;       *)
(*   - the first prototype (src/unnamed/part_002): Client.socketMessage.   *)
(* Each iteration has its own state variables and its own specification.   *)
(*                                                                         *)
(* The media engine (RTCPeerConnection) and the web socket are external:   *)
(* a call to the engine is recorded in the session's log when the code     *)
(* makes it, and the promise it returns is settled later by the engine     *)
(* (EngineResolve / EngineReject), which resumes the suspended async       *)
(* function at its await.  A peer connection chains its operations: it     *)
(* settles the calls made on it in the order they were made.               *)
(***************************************************************************)
EXTENDS Integers, Sequences, FiniteSets, TLC

(***************************************************************************)
(* Bounds of the model.                                                    *)
(***************************************************************************)
\* sessions the live node creates (server 'connection' events and 'connect' commands)
MaxClients == 2
\* external events the live node handles (messages, commands, engine callbacks)
MaxEvents == 4
MaxRelayClients == 3
MaxRelayEvents == 6
MaxRouteSessions == 3
MaxRouteEvents == 2
MaxIdxClients == 3
MaxIdxEvents == 2
MaxStoreWrites == 3
MaxBootSessions == 2
MaxOperatorEvents == 2
MaxSignalEvents == 2
MaxCloseEvents == 2
MaxCodecEvents == 2

(***************************************************************************)
(* Values.                                                                 *)
(***************************************************************************)
\* a field that the JSON text does not carry (undefined)
Absent == "<absent>"
\* the JSON value null
Null == "<null>"

\* setGlobals: the development defaults
NODE_INSTANCE_NAME == "default-dev-id"
NODE_AUTH == ""

\* the token authenticateRequest compares with
SharedSecret == "testauth"

\* payloads: session descriptions, ICE payloads with and without a candidate marker
Sdps == {"sdp1", "sdp2"}
WithCandidate == "ice{candidate}"
NoCandidate == "ice{}"
Streams == {"stream1"}

\* what the engine produces: createAnswer answers the remote description in force,
\* createOffer describes the tracks attached so far
AnswerTo(sdp) == IF sdp = "sdp1" THEN "answer-to-sdp1" ELSE
                 IF sdp = "sdp2" THEN "answer-to-sdp2" ELSE "answer-to-other"
OfferWith(n) == IF n = 0 THEN "offer-0-tracks" ELSE
                IF n = 1 THEN "offer-1-track" ELSE "offer-n-tracks"

(***************************************************************************)
(* Message codec: SockRequest and SockResponse.                            *)
(***************************************************************************)
\* A received text: either not decodable as JSON, or an object whose fields
\* may be absent.  A data field that is a JSON array is written data = ArrayData
\* with the elements in items.
ArrayData == "<array>"
JunkText ==
    [json |-> FALSE, action |-> Absent, data |-> Absent, items |-> <<>>,
     id |-> Absent, token |-> Absent]
JsonText(action, data, id, token) ==
    [json |-> TRUE, action |-> action, data |-> data, items |-> <<>>,
     id |-> id, token |-> token]
JsonArrayText(action, items, id, token) ==
    [json |-> TRUE, action |-> action, data |-> ArrayData, items |-> items,
     id |-> id, token |-> token]

\* x ?? d
Coalesce(x, d) == IF x = Absent \/ x = Null THEN d ELSE x

\* new SockRequest(msg) had it copied the fields without a default
SockRequestNoDefaults(msg) ==
    IF msg.json
    THEN [threw |-> FALSE, parseError |-> FALSE, action |-> msg.action,
          data |-> msg.data, items |-> msg.items, id |-> msg.id, token |-> msg.token]
    ELSE [threw |-> TRUE, parseError |-> TRUE,
          action |-> "", data |-> Null, items |-> <<>>, id |-> "", token |-> ""]

\* new SockRequest(msg).  JSON.parse throws on junk and the catch sets parseError,
\* but `parsed` is then undefined and `parsed.action` raises a TypeError out of
\* the constructor: threw is that exception.
SockRequest(msg) ==
    IF msg.json
    THEN [threw |-> FALSE, parseError |-> FALSE,
          action |-> Coalesce(msg.action, ""),
          data |-> Coalesce(msg.data, Null), items |-> msg.items,
          id |-> Coalesce(msg.id, ""),
          token |-> Coalesce(msg.token, "")]
    ELSE [threw |-> TRUE, parseError |-> TRUE,
          action |-> "", data |-> Null, items |-> <<>>, id |-> "", token |-> ""]

\* generateGenericMessage had it left the credentials out whatever useAuth is
generateGenericMessageNoAuth(action, data, id, token, useAuth) ==
    [action |-> action, data |-> data, id |-> Absent, token |-> Absent]

\* SockResponse.generateGenericMessage: the fields of the JSON text it returns
generateGenericMessage(action, data, id, token, useAuth) ==
    IF useAuth
    THEN [action |-> action, data |-> data, id |-> id, token |-> token]
    ELSE [action |-> action, data |-> data, id |-> Absent, token |-> Absent]

RESP_OFFER(offer) == generateGenericMessage("offer", offer, NODE_INSTANCE_NAME, NODE_AUTH, TRUE)
RESP_ANSWER(ans) == generateGenericMessage("answer", ans, NODE_INSTANCE_NAME, NODE_AUTH, FALSE)
RESP_RENEG == generateGenericMessage("renegotiate", Null, NODE_INSTANCE_NAME, NODE_AUTH, FALSE)
RESP_ICE(ice, auth) == generateGenericMessage("addICE", ice, NODE_INSTANCE_NAME, NODE_AUTH, auth)

(***************************************************************************)
(* State.                                                                  *)
(***************************************************************************)
VARIABLES
    \* live node: Management.clients, the sessions in the order they were added
    clients,
    \* live node: the global NODE_ID
    NODE_ID,
    \* relay node: the list of the singleton Clients (a ClientManager)
    Clients,
    \* first prototype: the global list clients
    protoClients,
    \* second prototype: clients is the global list, removed the Client objects
    \* that socket.onclose took out of it
    idx,
    \* the bootstrap: the registration document in the directory store, the
    \* subscription, the notification handlers suspended at an await, and what
    \* init has started so far
    boot,
    \* the destination ids the last routing command logged as not existing
    routingErrors,
    \* an exception left a handler uncaught: the node process has ended
    uncaught,
    \* external events handled so far
    nEvents,
    \* the event the last step handled
    lastEvt

vars ==
    <<clients, NODE_ID, Clients, protoClients, idx, boot, routingErrors, uncaught, nEvents,
      lastEvt>>

\* what the steps of each iteration leave alone
notLive == <<Clients, protoClients, idx, boot>>
notRelay == <<clients, NODE_ID, protoClients, idx, boot>>
notProto == <<clients, NODE_ID, Clients, routingErrors, idx, boot>>
notIdx == <<clients, NODE_ID, Clients, protoClients, boot>>
notBoot == <<NODE_ID, Clients, protoClients, idx, routingErrors, lastEvt>>

NoReq ==
    [threw |-> FALSE, parseError |-> FALSE, action |-> "", data |-> Null, items |-> <<>>,
     id |-> "", token |-> ""]
Evt(kind, sess, req, ok) == [kind |-> kind, sess |-> sess, req |-> req, ok |-> ok]

\* the registration document: absent, written without an assignment, or
\* carrying one; ver counts the writes the store has applied to it
Document(state, ver) == [state |-> state, ver |-> ver]

\* init before its first statement
Booting ==
    [at |-> "start", doc |-> Document("none", 0), sub |-> FALSE, seenVer |-> -1,
     seenState |-> "none", handlers |-> <<>>, db_read |-> FALSE, managementSockets |-> 0,
     servers |-> 0, deletes |-> 0, observed |-> FALSE, unassignedSeen |-> FALSE,
     assignedOnce |-> FALSE]
\* init and its handler have run to their end
Booted ==
    [Booting EXCEPT !.at = "listening", !.db_read = TRUE, !.managementSockets = 1,
                    !.servers = 1, !.deletes = 1, !.observed = TRUE,
                    !.assignedOnce = TRUE, !.seenVer = 2,
                    !.seenState = "assigned", !.doc = Document("none", 3)]

(***************************************************************************)
(* ClientConnection: the state and the methods both roles share.           *)
(***************************************************************************)
\* new InboundClient(socket) / new OutboundClient(socket): the constructor of
\* ClientConnection.  id_ is the private _id: <<>> is null, <<x>> is the string x.
\* tasks are the async functions suspended at an await on the engine, in the
\* order of the calls they await.
ClientConnection(role, sock) ==
    [role |-> role, id_ |-> <<>>, pc |-> "open", sock |-> sock,
     signalingState |-> "stable",
     clientStreams |-> <<>>, log |-> <<>>, sent |-> <<>>, tasks |-> <<>>, ntrig |-> 0]

\* get id(): this._id ?? ""
ClientId(c) == IF c.id_ = <<>> THEN "" ELSE c.id_[1]

\* a call of this.peerConnection.<op>(arg), made on behalf of trigger trig
Call(c, op, arg, trig) ==
    [c EXCEPT !.log = Append(@, [op |-> op, arg |-> arg, trig |-> trig])]

\* an async function of kind `kind` suspended at `await this.peerConnection.<op>(arg)`
Await(c, kind, op, arg, trig, val) ==
    [Call(c, op, arg, trig) EXCEPT
        !.tasks = Append(@, [kind |-> kind, at |-> op, arg |-> arg, trig |-> trig,
                             val |-> val, live |-> (c.pc = "open")])]

\* the argument of the last setRemoteDescription call made so far
RemoteDescription(c) ==
    LET S == {k \in 1..Len(c.log) : c.log[k].op = "setRemoteDescription"}
    IN IF S = {} THEN Null ELSE c.log[CHOOSE k \in S : \A j \in S : j <= k].arg

\* the tracks attached so far
TrackCount(c) == Cardinality({k \in 1..Len(c.log) : c.log[k].op = "addTrack"})

\* the async functions that answer a remote offer
Answering == {"getRtcAnswer", "processOffer"}

\* the engine accepts the call a task awaits: the connection was open when the
\* call was made, a description is present, and the signaling state allows it
Acceptable(c, t) ==
    /\ t.live
    /\ t.at = "setRemoteDescription" => t.arg \notin {Null, Absent}
    /\ (t.at = "setRemoteDescription" /\ t.kind \notin Answering)
           => c.signalingState = "have-local-offer"
    /\ (t.at = "createAnswer" \/ (t.at = "setLocalDescription" /\ t.kind \in Answering))
           => c.signalingState = "have-remote-offer"

\* the signaling state after the engine applied the call a task awaits
Applied(c, t) ==
    [c EXCEPT !.signalingState =
        IF t.at = "setRemoteDescription"
        THEN (IF t.kind \in Answering THEN "have-remote-offer" ELSE "stable")
        ELSE IF t.at = "setLocalDescription"
        THEN (IF t.kind \in Answering THEN "stable" ELSE "have-local-offer")
        ELSE @]

\* authenticateRequest had it taken the id of every message as the identity
authenticateRequestRebinds(c, req) ==
    [ok |-> (req.token = SharedSecret), id_ |-> <<req.id>>]

\* authenticateRequest had it checked the token only when it binds the identity
authenticateRequestTokenOnce(c, req) ==
    IF c.id_ = <<>>
    THEN [ok |-> (req.token = SharedSecret), id_ |-> <<req.id>>]
    ELSE [ok |-> (c.id_[1] = req.id), id_ |-> c.id_]

\* authenticateRequest had it bound the identity only after the token check
authenticateRequestBindsIfValid(c, req) ==
    IF c.id_ = <<>>
    THEN [ok |-> (req.token = SharedSecret),
          id_ |-> IF req.token = SharedSecret THEN <<req.id>> ELSE <<>>]
    ELSE IF c.id_[1] # req.id
         THEN [ok |-> FALSE, id_ |-> c.id_]
         ELSE [ok |-> (req.token = SharedSecret), id_ |-> c.id_]

\* ClientConnection.authenticateRequest: the verdict and the _id it leaves
authenticateRequest(c, req) ==
    IF c.id_ = <<>>
    THEN [ok |-> (req.token = SharedSecret), id_ |-> <<req.id>>]
    ELSE IF c.id_[1] # req.id
         THEN [ok |-> FALSE, id_ |-> c.id_]
         ELSE [ok |-> (req.token = SharedSecret), id_ |-> c.id_]

\* ClientConnection.send: socket.send throws while the socket is still connecting,
\* transmits while it is open, and drops the text once close() was called.
\* `after` is the number of engine calls the session had made when it sent.
sendThrows(c) == c.sock = "connecting"
send(c, m, trig) ==
    IF c.sock = "open"
    THEN [c EXCEPT !.sent = Append(@, [msg |-> m, trig |-> trig, after |-> Len(c.log)])]
    ELSE c

\* ClientConnection.close
close(c) ==
    [c EXCEPT !.pc = "closed",
              !.sock = IF @ \in {"connecting", "open"} THEN "closing" ELSE @]

\* ClientConnection.addMediaStream: stream.getTracks() raises a TypeError on
\* undefined; addTrack raises on a closed connection and on a track the
\* connection already sends.  Each stream has one track.
addMediaStreamThrows(c, stream) ==
    \/ stream = Absent
    \/ c.pc = "closed"
    \/ \E k \in 1..Len(c.log) : c.log[k].op = "addTrack" /\ c.log[k].arg = stream
addMediaStream(c, stream) == Call(c, "addTrack", stream, 0)

\* InboundClient.renegotiateWebRTC
InboundRenegotiate(c) == send(c, RESP_RENEG, 0)

\* OutboundClient.sendOffer up to its first await
sendOffer(c) ==
    Await([c EXCEPT !.ntrig = @ + 1], "sendOffer", "createOffer", Null, c.ntrig + 1,
          OfferWith(TrackCount(c)))

\* OutboundClient.renegotiateWebRTC
OutboundRenegotiate(c) == sendOffer(c)

\* renegotiateWebRTC of either role
renegotiateWebRTC(c) ==
    IF c.role = "inbound" THEN InboundRenegotiate(c) ELSE OutboundRenegotiate(c)

\* InboundClient.getRtcAnswer up to its first await
getRtcAnswer(c, offer) ==
    Await([c EXCEPT !.ntrig = @ + 1], "getRtcAnswer", "setRemoteDescription", offer,
          c.ntrig + 1, Null)

\* OutboundClient.processAnswer up to its await
processAnswer(c, answer) ==
    Await([c EXCEPT !.ntrig = @ + 1], "processAnswer", "setRemoteDescription", answer,
          c.ntrig + 1, Null)

(***************************************************************************)
(* InboundClient and OutboundClient: the message handlers.                 *)
(***************************************************************************)
\* req.data.candidate: a TypeError on null, truthy only with a candidate marker
CandidateThrows(data) == data = Null
HasCandidate(data) == data = WithCandidate

\* the switch of InboundClient.onClientMessage had it a case for answer
InboundDispatchAppliesAnswer(c, req) ==
    IF req.action = "offer"
    THEN [c |-> getRtcAnswer(c, req.data), threw |-> FALSE]
    ELSE IF req.action = "answer"
    THEN [c |-> processAnswer(c, req.data), threw |-> FALSE]
    ELSE IF req.action = "addICE"
    THEN IF CandidateThrows(req.data) THEN [c |-> c, threw |-> TRUE]
         ELSE IF HasCandidate(req.data)
              THEN [c |-> Call(c, "addIceCandidate", req.data, 0), threw |-> FALSE]
              ELSE [c |-> c, threw |-> FALSE]
    ELSE [c |-> c, threw |-> FALSE]

\* the switch of InboundClient.onClientMessage
InboundDispatch(c, req) ==
    IF req.action = "offer"
    THEN [c |-> getRtcAnswer(c, req.data), threw |-> FALSE]
    ELSE IF req.action = "addICE"
    THEN IF CandidateThrows(req.data) THEN [c |-> c, threw |-> TRUE]
         ELSE IF HasCandidate(req.data)
              THEN [c |-> Call(c, "addIceCandidate", req.data, 0), threw |-> FALSE]
              ELSE [c |-> c, threw |-> FALSE]
    ELSE [c |-> c, threw |-> FALSE]

\* InboundClient.onClientMessage without the return after close()
InboundOnClientMessageFallsThrough(c, msg) ==
    LET req == SockRequest(msg) IN
    IF req.threw THEN [c |-> c, threw |-> TRUE, auth |-> "none"]
    ELSE IF req.parseError THEN [c |-> c, threw |-> FALSE, auth |-> "none"]
    ELSE LET a == authenticateRequest(c, req)
             c1 == [c EXCEPT !.id_ = a.id_]
             d == InboundDispatch(IF a.ok THEN c1 ELSE close(c1), req)
         IN [c |-> d.c, threw |-> d.threw, auth |-> IF a.ok THEN "ok" ELSE "fail"]

\* InboundClient.onClientMessage had close() raised on a session already closed
InboundOnClientMessageCloseRaises(c, msg) ==
    LET req == SockRequest(msg) IN
    IF req.threw THEN [c |-> c, threw |-> TRUE, auth |-> "none"]
    ELSE IF req.parseError THEN [c |-> c, threw |-> FALSE, auth |-> "none"]
    ELSE LET a == authenticateRequest(c, req)
             c1 == [c EXCEPT !.id_ = a.id_]
         IN IF ~a.ok
            THEN [c |-> close(c1), threw |-> (c1.pc = "closed"), auth |-> "fail"]
            ELSE LET d == InboundDispatch(c1, req)
                 IN [c |-> d.c, threw |-> d.threw, auth |-> "ok"]

\* InboundClient.onClientMessage: the session it leaves, whether it raised, and
\* the verdict of the gate ("none" when the gate did not run)
InboundOnClientMessage(c, msg) ==
    LET req == SockRequest(msg) IN
    IF req.threw THEN [c |-> c, threw |-> TRUE, auth |-> "none"]
    ELSE IF req.parseError THEN [c |-> c, threw |-> FALSE, auth |-> "none"]
    ELSE LET a == authenticateRequest(c, req)
             c1 == [c EXCEPT !.id_ = a.id_]
         IN IF ~a.ok
            THEN [c |-> close(c1), threw |-> FALSE, auth |-> "fail"]
            ELSE LET d == InboundDispatch(c1, req)
                 IN [c |-> d.c, threw |-> d.threw, auth |-> "ok"]

\* the switch of OutboundClient.onClientMessage
OutboundDispatch(c, req) ==
    IF req.action = "answer"
    THEN [c |-> processAnswer(c, req.data), threw |-> FALSE]
    ELSE IF req.action = "renegotiate"
    THEN [c |-> OutboundRenegotiate(c), threw |-> FALSE]
    ELSE IF req.action = "addICE"
    THEN IF CandidateThrows(req.data) THEN [c |-> c, threw |-> TRUE]
         ELSE IF HasCandidate(req.data)
              THEN [c |-> Call(c, "addIceCandidate", req.data, 0), threw |-> FALSE]
              ELSE [c |-> c, threw |-> FALSE]
    ELSE [c |-> c, threw |-> FALSE]

\* OutboundClient.onClientMessage had it run the gate as InboundClient does
OutboundOnClientMessageAuthenticates(c, msg) ==
    LET req == SockRequest(msg) IN
    IF req.threw THEN [c |-> c, threw |-> TRUE, auth |-> "none"]
    ELSE IF req.parseError THEN [c |-> c, threw |-> FALSE, auth |-> "none"]
    ELSE LET a == authenticateRequest(c, req)
             c1 == [c EXCEPT !.id_ = a.id_]
         IN IF ~a.ok
            THEN [c |-> close(c1), threw |-> FALSE, auth |-> "fail"]
            ELSE LET d == OutboundDispatch(c1, req)
                 IN [c |-> d.c, threw |-> d.threw, auth |-> "ok"]

\* OutboundClient.onClientMessage
OutboundOnClientMessage(c, msg) ==
    LET req == SockRequest(msg) IN
    IF req.threw THEN [c |-> c, threw |-> TRUE, auth |-> "none"]
    ELSE IF req.parseError THEN [c |-> c, threw |-> FALSE, auth |-> "none"]
    ELSE LET d == OutboundDispatch(c, req)
         IN [c |-> d.c, threw |-> d.threw, auth |-> "none"]

\* Resume had getRtcAnswer returned the answer without setLocalDescription
ResumeSkipsLocalDescription(c) ==
    LET t == Head(c.tasks)
        c0 == [Applied(c, t) EXCEPT !.tasks = Tail(@)] IN
    IF t.kind = "getRtcAnswer"
    THEN IF t.at = "setRemoteDescription"
         THEN Await(c0, t.kind, "createAnswer", Null, t.trig, AnswerTo(RemoteDescription(c0)))
         ELSE send(c0, RESP_ANSWER(t.val), t.trig)
    ELSE IF t.kind = "sendOffer"
    THEN IF t.at = "createOffer"
         THEN Await(c0, t.kind, "setLocalDescription", t.val, t.trig, t.val)
         ELSE send(c0, RESP_OFFER(t.val), t.trig)
    ELSE c0

\* Resume had sendOffer sent the offer without setLocalDescription
ResumeOffersBeforeLocalDescription(c) ==
    LET t == Head(c.tasks)
        c0 == [Applied(c, t) EXCEPT !.tasks = Tail(@)] IN
    IF t.kind = "getRtcAnswer"
    THEN IF t.at = "setRemoteDescription"
         THEN Await(c0, t.kind, "createAnswer", Null, t.trig, AnswerTo(RemoteDescription(c0)))
         ELSE IF t.at = "createAnswer"
         THEN Await(c0, t.kind, "setLocalDescription", t.val, t.trig, t.val)
         ELSE send(c0, RESP_ANSWER(t.val), t.trig)
    ELSE IF t.kind = "sendOffer"
    THEN send(c0, RESP_OFFER(t.val), t.trig)
    ELSE c0

\* the continuation of the first suspended async function after the engine
\* settled the call it awaited: getRtcAnswer followed by the .then of
\* onClientMessage, sendOffer, processAnswer
Resume(c) ==
    LET t == Head(c.tasks)
        c0 == [Applied(c, t) EXCEPT !.tasks = Tail(@)] IN
    IF t.kind = "getRtcAnswer"
    THEN IF t.at = "setRemoteDescription"
         THEN Await(c0, t.kind, "createAnswer", Null, t.trig, AnswerTo(RemoteDescription(c0)))
         ELSE IF t.at = "createAnswer"
         THEN Await(c0, t.kind, "setLocalDescription", t.val, t.trig, t.val)
         ELSE send(c0, RESP_ANSWER(t.val), t.trig)
    ELSE IF t.kind = "sendOffer"
    THEN IF t.at = "createOffer"
         THEN Await(c0, t.kind, "setLocalDescription", t.val, t.trig, t.val)
         ELSE send(c0, RESP_OFFER(t.val), t.trig)
    ELSE c0

\* sendIce had InboundClient passed auth = true as OutboundClient does
sendIceWithAuth(c, candidate) == send(c, RESP_ICE(candidate, TRUE), 0)

\* InboundClient.sendIce / OutboundClient.sendIce
sendIce(c, candidate) == send(c, RESP_ICE(candidate, c.role = "outbound"), 0)

(***************************************************************************)
(* Management.                                                             *)
(***************************************************************************)
\* Management.getClientById: the forEach keeps the last match; 0 is null
getClientById(cs, id) ==
    LET S == {k \in 1..Len(cs) : ClientId(cs[k]) = id}
    IN IF S = {} THEN 0 ELSE CHOOSE k \in S : \A j \in S : j <= k

\* the for loop of the addRoute case, from position i of the array req.data
\* (the source is at position 1, the code's req.data[0]): the sessions it leaves
\* and whether addMediaStream raised
RECURSIVE AddRouteLoop(_, _, _, _, _)
\* the loop had it asked for the renegotiation before attaching the stream
AddRouteLoopRenegotiatesFirst(cs, items, i, srcStream, errors) ==
    IF i > Len(items) THEN [clients |-> cs, threw |-> FALSE, errors |-> errors]
    ELSE LET user == getClientById(cs, items[i]) IN
         IF user = 0 THEN AddRouteLoop(cs, items, i + 1, srcStream, Append(errors, items[i]))
         ELSE IF addMediaStreamThrows(cs[user], srcStream)
              THEN [clients |-> cs, threw |-> TRUE, errors |-> errors]
              ELSE AddRouteLoop(
                       [cs EXCEPT ![user] = addMediaStream(renegotiateWebRTC(@), srcStream)],
                       items, i + 1, srcStream, errors)

\* the loop had it left at the first destination that does not exist
AddRouteLoopStopsAtMissing(cs, items, i, srcStream, errors) ==
    IF i > Len(items) THEN [clients |-> cs, threw |-> FALSE, errors |-> errors]
    ELSE LET user == getClientById(cs, items[i]) IN
         IF user = 0 THEN [clients |-> cs, threw |-> FALSE, errors |-> Append(errors, items[i])]
         ELSE IF addMediaStreamThrows(cs[user], srcStream)
              THEN [clients |-> cs, threw |-> TRUE, errors |-> errors]
              ELSE AddRouteLoop(
                       [cs EXCEPT ![user] = renegotiateWebRTC(addMediaStream(@, srcStream))],
                       items, i + 1, srcStream, errors)

AddRouteLoop(cs, items, i, srcStream, errors) ==
    IF i > Len(items) THEN [clients |-> cs, threw |-> FALSE, errors |-> errors]
    ELSE LET user == getClientById(cs, items[i]) IN
         IF user = 0 THEN AddRouteLoop(cs, items, i + 1, srcStream, Append(errors, items[i]))
         ELSE IF addMediaStreamThrows(cs[user], srcStream)
              THEN [clients |-> cs, threw |-> TRUE, errors |-> errors]
              ELSE AddRouteLoop(
                       [cs EXCEPT ![user] = renegotiateWebRTC(addMediaStream(@, srcStream))],
                       items, i + 1, srcStream, errors)

\* addRoute had it gone on to the destinations without a source
addRouteIgnoresSource(cs, req) ==
    IF req.data = Null THEN [clients |-> cs, threw |-> TRUE, errors |-> <<>>]
    ELSE LET client == IF Len(req.items) = 0 THEN 0 ELSE getClientById(cs, req.items[1])
             srcStream == IF client = 0 THEN Absent
                          ELSE IF Len(cs[client].clientStreams) = 0 THEN Absent
                          ELSE cs[client].clientStreams[1]
         IN AddRouteLoop(cs, req.items, 2, srcStream, <<>>)

\* the addRoute case of Management.onManagementMessage; req.data[0] raises a
\* TypeError on null
addRoute(cs, req) ==
    IF req.data = Null THEN [clients |-> cs, threw |-> TRUE, errors |-> <<>>]
    ELSE LET client == IF Len(req.items) = 0 THEN 0 ELSE getClientById(cs, req.items[1]) IN
         IF client = 0
         THEN [clients |-> cs, threw |-> FALSE,
               errors |-> <<IF Len(req.items) = 0 THEN Absent ELSE req.items[1]>>]
         ELSE LET srcStream == IF Len(cs[client].clientStreams) = 0 THEN Absent
                               ELSE cs[client].clientStreams[1]
              IN AddRouteLoop(cs, req.items, 2, srcStream, <<>>)

(***************************************************************************)
(* What the live node receives.                                            *)
(***************************************************************************)
RawIds == {Absent, "alice", "bob"}
RawTokens == {SharedSecret, "bad"}
ClientBodies ==
    ({"offer"} \X (Sdps \cup {Absent}))
    \cup ({"answer"} \X {"sdp1"})
    \cup ({"addICE"} \X {WithCandidate, NoCandidate, Absent})
    \cup ({"renegotiate", "addRoute"} \X {Absent})
ClientTexts ==
    {JunkText} \cup
    {JsonText(b[1], b[2], i, t) : b \in ClientBodies, i \in RawIds, t \in RawTokens}

RouteIds == {"", "alice", "bob"}
RouteLists == {<<a>> : a \in RouteIds} \cup {<<a, b>> : a \in RouteIds, b \in RouteIds}
ManagementTexts ==
    {JunkText,
     JsonText("setId", "node-7", Absent, Absent),
     JsonText("connect", "ws://peer:8081", Absent, Absent),
     JsonText("offer", "sdp1", Absent, Absent),
     JsonText("addRoute", Absent, Absent, Absent)}
    \cup {JsonArrayText("addRoute", r, Absent, Absent) : r \in RouteLists}

Candidates == {"candidate1", Null}

(***************************************************************************)
(* The live node: one action per handler.                                  *)
(***************************************************************************)
Running == ~uncaught
MoreEvents == nEvents < MaxEvents

\* server.on('connection'): new InboundClient(socket); manager.addClient(client)
Connection ==
    /\ Running /\ MoreEvents /\ Len(clients) < MaxClients
    /\ clients' = Append(clients, ClientConnection("inbound", "open"))
    /\ lastEvt' = Evt("connection", Len(clients) + 1, NoReq, "none")
    /\ nEvents' = nEvents + 1
    /\ UNCHANGED <<NODE_ID, uncaught, routingErrors, notLive>>

\* socket.onmessage of an InboundClient had it obeyed a setId
InboundMessageSetsId(i, msg) ==
    /\ Running /\ MoreEvents
    /\ clients[i].role = "inbound" /\ clients[i].sock \in {"open", "closing"}
    /\ LET r == InboundOnClientMessage(clients[i], msg) IN
        /\ clients' = [clients EXCEPT ![i] = r.c]
        /\ uncaught' = r.threw
        /\ lastEvt' = Evt("message", i, SockRequest(msg), r.auth)
        /\ NODE_ID' = IF r.auth = "ok" /\ SockRequest(msg).action = "setId"
                      THEN SockRequest(msg).data ELSE NODE_ID
    /\ nEvents' = nEvents + 1
    /\ UNCHANGED <<routingErrors, notLive>>

\* socket.onmessage of an InboundClient; a socket still delivers what arrives
\* between close() and the end of the closing handshake
InboundMessage(i, msg) ==
    /\ Running /\ MoreEvents
    /\ clients[i].role = "inbound" /\ clients[i].sock \in {"open", "closing"}
    /\ LET r == InboundOnClientMessage(clients[i], msg) IN
        /\ clients' = [clients EXCEPT ![i] = r.c]
        /\ uncaught' = r.threw
        /\ lastEvt' = Evt("message", i, SockRequest(msg), r.auth)
    /\ nEvents' = nEvents + 1
    /\ UNCHANGED <<NODE_ID, routingErrors, notLive>>

\* socket.onmessage of an OutboundClient
OutboundMessage(i, msg) ==
    /\ Running /\ MoreEvents
    /\ clients[i].role = "outbound" /\ clients[i].sock = "open"
    /\ LET r == OutboundOnClientMessage(clients[i], msg) IN
        /\ clients' = [clients EXCEPT ![i] = r.c]
        /\ uncaught' = r.threw
        /\ lastEvt' = Evt("message", i, SockRequest(msg), r.auth)
    /\ nEvents' = nEvents + 1
    /\ UNCHANGED <<NODE_ID, routingErrors, notLive>>

\* interSock.onopen of the connect case: interClient.renegotiateWebRTC()
SocketOpen(i) ==
    /\ Running /\ MoreEvents
    /\ clients[i].sock = "connecting"
    /\ clients' = [clients EXCEPT ![i] = renegotiateWebRTC([@ EXCEPT !.sock = "open"])]
    /\ lastEvt' = Evt("open", i, NoReq, "none")
    /\ nEvents' = nEvents + 1
    /\ UNCHANGED <<NODE_ID, uncaught, routingErrors, notLive>>

\* the closing handshake of a socket ends; the node has no handler for it
SocketClosed(i) ==
    /\ Running
    /\ clients[i].sock = "closing"
    /\ clients' = [clients EXCEPT ![i].sock = "closed"]
    /\ lastEvt' = Evt("closed", i, NoReq, "none")
    /\ UNCHANGED <<NODE_ID, uncaught, nEvents, routingErrors, notLive>>

\* peerConnection.ontrack: clientStreams.push(event.streams[0])
OnTrack(i, stream) ==
    /\ Running /\ MoreEvents
    /\ clients[i].pc = "open" /\ RemoteDescription(clients[i]) # Null
    /\ clients' = [clients EXCEPT ![i].clientStreams = Append(@, stream)]
    /\ lastEvt' = Evt("track", i, NoReq, "none")
    /\ nEvents' = nEvents + 1
    /\ UNCHANGED <<NODE_ID, uncaught, routingErrors, notLive>>

\* peerConnection.onicecandidate: sendIce(event.candidate) when there is one
OnIceCandidate(i, candidate) ==
    /\ Running /\ MoreEvents
    /\ clients[i].pc = "open"
    /\ \E k \in 1..Len(clients[i].log) : clients[i].log[k].op = "setLocalDescription"
    /\ IF candidate = Null
       THEN UNCHANGED <<clients, uncaught>>
       ELSE /\ clients' = [clients EXCEPT ![i] = sendIce(@, candidate)]
            /\ uncaught' = sendThrows(clients[i])
    /\ lastEvt' = Evt("icecandidate", i, NoReq, "none")
    /\ nEvents' = nEvents + 1
    /\ UNCHANGED <<NODE_ID, routingErrors, notLive>>

\* the engine settles the call a suspended async function awaits, and the
\* function runs to its next await or to its end
EngineResolve(i) ==
    /\ Running
    /\ clients[i].tasks # <<>> /\ Acceptable(clients[i], Head(clients[i].tasks))
    /\ clients' = [clients EXCEPT ![i] = Resume(@)]
    /\ lastEvt' = Evt("resolve", i, NoReq, "none")
    /\ UNCHANGED <<NODE_ID, uncaught, nEvents, routingErrors, notLive>>

\* the engine rejects the call: the async function ends with a rejection that
\* nothing handles, which ends the process
EngineReject(i) ==
    /\ Running
    /\ clients[i].tasks # <<>>
    /\ ~Acceptable(clients[i], Head(clients[i].tasks)) \/ clients[i].pc = "closed"
    /\ clients' = [clients EXCEPT ![i].tasks = Tail(@)]
    /\ uncaught' = TRUE
    /\ lastEvt' = Evt("reject", i, NoReq, "none")
    /\ UNCHANGED <<NODE_ID, nEvents, routingErrors, notLive>>

\* Management.onManagementMessage
ManagementMessage(msg) ==
    /\ Running /\ MoreEvents
    /\ LET req == SockRequest(msg) IN
        /\ lastEvt' = Evt("management", 0, req, "none")
        /\ IF req.threw
           THEN uncaught' = TRUE /\ UNCHANGED <<clients, NODE_ID, routingErrors>>
           ELSE IF req.parseError
           THEN UNCHANGED <<clients, NODE_ID, uncaught, routingErrors>>
           ELSE IF req.action = "setId"
           THEN NODE_ID' = req.data /\ UNCHANGED <<clients, uncaught, routingErrors>>
           ELSE IF req.action = "addRoute"
           THEN LET r == addRoute(clients, req) IN
                    /\ clients' = r.clients
                    /\ uncaught' = r.threw
                    /\ routingErrors' = r.errors
                    /\ UNCHANGED NODE_ID
           ELSE IF req.action = "connect"
           THEN /\ Len(clients) < MaxClients
                /\ clients' = Append(clients, ClientConnection("outbound", "connecting"))
                /\ UNCHANGED <<NODE_ID, uncaught, routingErrors>>
           ELSE UNCHANGED <<clients, NODE_ID, uncaught, routingErrors>>
    /\ nEvents' = nEvents + 1
    /\ UNCHANGED notLive

\* the live node after the handoff: a Management without sessions
Init ==
    /\ clients = <<>>
    /\ NODE_ID = Absent
    /\ Clients = <<>>
    /\ protoClients = <<>>
    /\ idx = [clients |-> <<>>, removed |-> <<>>]
    /\ boot = Booted
    /\ routingErrors = <<>>
    /\ uncaught = FALSE
    /\ nEvents = 0
    /\ lastEvt = Evt("init", 0, NoReq, "none")

Next ==
    \/ Connection
    \/ \E i \in DOMAIN clients, msg \in ClientTexts : InboundMessage(i, msg)
    \/ \E i \in DOMAIN clients, msg \in ClientTexts : OutboundMessage(i, msg)
    \/ \E i \in DOMAIN clients : SocketOpen(i)
    \/ \E i \in DOMAIN clients : SocketClosed(i)
    \/ \E i \in DOMAIN clients, stream \in Streams : OnTrack(i, stream)
    \/ \E i \in DOMAIN clients, candidate \in Candidates : OnIceCandidate(i, candidate)
    \/ \E i \in DOMAIN clients : EngineResolve(i)
    \/ \E i \in DOMAIN clients : EngineReject(i)
    \/ \E msg \in ManagementTexts : ManagementMessage(msg)

Spec == Init /\ [][Next]_vars

(***************************************************************************)
(* The addRoute command of the live node on registries of several          *)
(* sessions: each session is the state its handlers leave it in.           *)
(***************************************************************************)
\* an accepted session whose first message carried id and the right token
BoundSession(id) ==
    InboundOnClientMessage(ClientConnection("inbound", "open"),
                           JsonText("renegotiate", Absent, id, SharedSecret)).c

\* an accepted session that negotiated an offer and received a track
StreamingSession(id) ==
    LET c == InboundOnClientMessage(ClientConnection("inbound", "open"),
                                    JsonText("offer", "sdp1", id, SharedSecret)).c
    IN [Resume(Resume(Resume(c))) EXCEPT !.clientStreams = <<"stream1">>]

\* a session the node dialled, after its socket opened and its offer was sent
DialledSession ==
    Resume(Resume(renegotiateWebRTC(
        [ClientConnection("outbound", "connecting") EXCEPT !.sock = "open"])))

SessionKinds ==
    {StreamingSession("alice"), BoundSession("bob"), BoundSession("carol"),
     close(BoundSession("carol")), DialledSession}
RECURSIVE Registries(_)
Registries(n) ==
    IF n = 0 THEN {<<>>}
    ELSE LET R == Registries(n - 1)
         IN R \cup {Append(r, k) : r \in {x \in R : Len(x) = n - 1}, k \in SessionKinds}

RouteSources == {"alice", "ghost"}
RouteDestLists ==
    {<<"bob">>, <<"ghost", "bob">>, <<"bob", "ghost", "carol">>, <<"alice">>, <<"">>}
RouteTexts ==
    {JsonText("addRoute", Absent, Absent, Absent)}
    \cup {JsonArrayText("addRoute", <<src>> \o dests, Absent, Absent) :
              src \in RouteSources, dests \in RouteDestLists}

InitRoute ==
    /\ clients \in Registries(MaxRouteSessions)
    /\ NODE_ID = Absent
    /\ Clients = <<>>
    /\ protoClients = <<>>
    /\ idx = [clients |-> <<>>, removed |-> <<>>]
    /\ boot = Booted
    /\ routingErrors = <<>>
    /\ uncaught = FALSE
    /\ nEvents = 0
    /\ lastEvt = Evt("init", 0, NoReq, "none")

\* Management.onManagementMessage on an addRoute command
RouteCommand(msg) == nEvents < MaxRouteEvents /\ ManagementMessage(msg)

NextRoute == \E msg \in RouteTexts : RouteCommand(msg)

SpecRoute == InitRoute /\ [][NextRoute]_vars

(***************************************************************************)
(* The first prototype: a socket server whose Client answers offers.       *)
(***************************************************************************)
ProtoJsonText(command, data, id, token) ==
    [json |-> TRUE, command |-> command, data |-> data, id |-> id, token |-> token]
ProtoJunkText ==
    [json |-> FALSE, command |-> Absent, data |-> Absent, id |-> Absent, token |-> Absent]

\* new Request(msg): the catch takes every exception of the try block, and no
\* field is defaulted
Request(msg) ==
    IF msg.json
    THEN [parseError |-> FALSE, command |-> msg.command, data |-> msg.data,
          id |-> msg.id, token |-> msg.token]
    ELSE [parseError |-> TRUE, command |-> Absent, data |-> Null,
          id |-> Absent, token |-> Absent]

\* class Response
INVALID_REQUEST ==
    [message |-> "Invalid request", sdp |-> Absent, candidate |-> Absent, error |-> TRUE]
AUTH_FAILED ==
    [message |-> "Invalid auth", sdp |-> Absent, candidate |-> Absent, error |-> TRUE]
generateAnswerResponse(answer) ==
    [message |-> "SDP answer", sdp |-> answer, candidate |-> Absent, error |-> FALSE]
generateIceMessage(candidate) ==
    [message |-> "New ICE Candidate", sdp |-> Absent, candidate |-> candidate, error |-> FALSE]

\* new Client(socket): id_ <<>> is null or undefined
Client ==
    [id_ |-> <<>>, pc |-> "open", sock |-> "open", signalingState |-> "stable",
     log |-> <<>>, sent |-> <<>>, tasks |-> <<>>, ntrig |-> 0]

\* Client.getAuthentication: the verdict and the id_ it leaves; an undefined
\* req.id leaves id_ undefined
getAuthentication(c, req) ==
    IF c.id_ = <<>>
    THEN [ok |-> (req.token = SharedSecret),
          id_ |-> IF req.id = Absent THEN <<>> ELSE <<req.id>>]
    ELSE IF c.id_[1] # req.id
         THEN [ok |-> FALSE, id_ |-> c.id_]
         ELSE [ok |-> (req.token = SharedSecret), id_ |-> c.id_]

\* Client.socketSend
socketSend(c, m, trig) == send(c, m, trig)

\* Client.processOffer up to its first await
processOffer(c, offer) ==
    Await([c EXCEPT !.ntrig = @ + 1], "processOffer", "setRemoteDescription",
          offer, c.ntrig + 1, Null)

\* Client.socketMessage: the client it leaves, whether it raised, and the
\* verdict of getAuthentication ("none" when it did not run)
socketMessage(c, msg) ==
    LET req == Request(msg) IN
    IF req.parseError
    THEN [c |-> socketSend(c, INVALID_REQUEST, 0), threw |-> FALSE, auth |-> "none"]
    ELSE LET a == getAuthentication(c, req)
             c1 == [c EXCEPT !.id_ = a.id_]
         IN IF ~a.ok
            THEN [c |-> [socketSend(c1, AUTH_FAILED, 0) EXCEPT
                            !.sock = IF @ = "open" THEN "closing" ELSE @],
                  threw |-> FALSE, auth |-> "fail"]
            ELSE IF req.command = "offer"
            THEN [c |-> processOffer(c1, Coalesce(req.data, Null)),
                  threw |-> FALSE, auth |-> "ok"]
            ELSE IF req.command = "iceCandidate"
            THEN IF CandidateThrows(Coalesce(req.data, Null))
                 THEN [c |-> c1, threw |-> TRUE, auth |-> "ok"]
                 ELSE IF HasCandidate(req.data)
                 THEN [c |-> Call(c1, "addIceCandidate", req.data, 0),
                       threw |-> FALSE, auth |-> "ok"]
                 ELSE [c |-> c1, threw |-> FALSE, auth |-> "ok"]
            ELSE [c |-> c1, threw |-> FALSE, auth |-> "ok"]

\* the continuation of processOffer after the engine settled the call it awaited
ProtoResume(c) ==
    LET t == Head(c.tasks)
        c0 == [Applied(c, t) EXCEPT !.tasks = Tail(@)] IN
    IF t.at = "setRemoteDescription"
    THEN Await(c0, t.kind, "createAnswer", Null, t.trig, AnswerTo(RemoteDescription(c0)))
    ELSE IF t.at = "createAnswer"
    THEN Await(c0, t.kind, "setLocalDescription", t.val, t.trig, t.val)
    ELSE socketSend(c0, generateAnswerResponse(t.val), t.trig)

ProtoCommands == {"offer", "iceCandidate"}
ProtoData == {"sdp1", WithCandidate, Absent}
ProtoTexts ==
    {ProtoJunkText} \cup
    {ProtoJsonText(command, data, id, token) :
        command \in ProtoCommands, data \in ProtoData, id \in RawIds, token \in RawTokens}

\* server.on('connection'): clients.push(new Client(socket))
ProtoConnection ==
    /\ Running /\ MoreEvents /\ Len(protoClients) < MaxClients
    /\ protoClients' = Append(protoClients, Client)
    /\ lastEvt' = Evt("connection", Len(protoClients) + 1, NoReq, "none")
    /\ nEvents' = nEvents + 1
    /\ UNCHANGED <<uncaught, notProto>>

\* socket.onmessage
ProtoSocketMessage(i, msg) ==
    /\ Running /\ MoreEvents
    /\ protoClients[i].sock \in {"open", "closing"}
    /\ LET r == socketMessage(protoClients[i], msg) IN
        /\ protoClients' = [protoClients EXCEPT ![i] = r.c]
        /\ uncaught' = r.threw
        /\ lastEvt' = Evt("socketMessage", i, Request(msg), r.auth)
    /\ nEvents' = nEvents + 1
    /\ UNCHANGED notProto

\* the closing handshake of a socket ends; nothing handles it
ProtoSocketClosed(i) ==
    /\ Running
    /\ protoClients[i].sock = "closing"
    /\ protoClients' = [protoClients EXCEPT ![i].sock = "closed"]
    /\ lastEvt' = Evt("closed", i, NoReq, "none")
    /\ UNCHANGED <<uncaught, nEvents, notProto>>

\* peerConnection.onicecandidate
ProtoOnIceCandidate(i, candidate) ==
    /\ Running /\ MoreEvents
    /\ protoClients[i].pc = "open"
    /\ \E k \in 1..Len(protoClients[i].log) : protoClients[i].log[k].op = "setLocalDescription"
    /\ protoClients' = IF candidate = Null THEN protoClients
                       ELSE [protoClients EXCEPT
                                ![i] = socketSend(@, generateIceMessage(candidate), 0)]
    /\ lastEvt' = Evt("icecandidate", i, NoReq, "none")
    /\ nEvents' = nEvents + 1
    /\ UNCHANGED <<uncaught, notProto>>

ProtoEngineResolve(i) ==
    /\ Running
    /\ protoClients[i].tasks # <<>>
    /\ Acceptable(protoClients[i], Head(protoClients[i].tasks))
    /\ protoClients' = [protoClients EXCEPT ![i] = ProtoResume(@)]
    /\ lastEvt' = Evt("resolve", i, NoReq, "none")
    /\ UNCHANGED <<uncaught, nEvents, notProto>>

ProtoEngineReject(i) ==
    /\ Running
    /\ protoClients[i].tasks # <<>>
    /\ ~Acceptable(protoClients[i], Head(protoClients[i].tasks))
    /\ protoClients' = [protoClients EXCEPT ![i].tasks = Tail(@)]
    /\ uncaught' = TRUE
    /\ lastEvt' = Evt("reject", i, NoReq, "none")
    /\ UNCHANGED <<nEvents, notProto>>

NextProto ==
    \/ ProtoConnection
    \/ \E i \in DOMAIN protoClients, msg \in ProtoTexts : ProtoSocketMessage(i, msg)
    \/ \E i \in DOMAIN protoClients : ProtoSocketClosed(i)
    \/ \E i \in DOMAIN protoClients, candidate \in Candidates : ProtoOnIceCandidate(i, candidate)
    \/ \E i \in DOMAIN protoClients : ProtoEngineResolve(i)
    \/ \E i \in DOMAIN protoClients : ProtoEngineReject(i)

SpecProto == Init /\ [][NextProto]_vars

(***************************************************************************)
(* The relay node: signalling over database collections, a registry of     *)
(* clients filled by registerClient commands.                              *)
(***************************************************************************)
\* new ClientConnection(id, initiator)
RelayClientConnection(id, initiator) ==
    [id |-> id, isInitiator |-> initiator, pc |-> "open", signalingState |-> "stable",
     clientStreams |-> <<>>, log |-> <<>>, sent |-> <<>>, tasks |-> <<>>, ntrig |-> 0]

\* ClientConnection.send: a document {id: NODE_ID, ...} added to a collection
\* of the client; startRouter set NODE_ID to NODE_INSTANCE_NAME
RelaySend(c, ref, field, value, trig) ==
    [c EXCEPT !.sent = Append(@, [ref |-> ref, id |-> NODE_INSTANCE_NAME,
                                  field |-> field, value |-> value, trig |-> trig])]

\* ClientConnection.sendOffer up to its first await
RelaySendOffer(c) ==
    Await([c EXCEPT !.ntrig = @ + 1], "sendOffer", "createOffer", Null, c.ntrig + 1,
          OfferWith(TrackCount(c)))

\* ClientConnection.renegotiateWebRTC
RelayRenegotiateWebRTC(c) ==
    IF c.isInitiator THEN RelaySendOffer(c)
    ELSE RelaySend(c, "commands", "command", "renegotiate", 0)

\* ClientConnection.handleOffer: getRtcAnswer up to its first await
RelayHandleOffer(c, offer) ==
    Await([c EXCEPT !.ntrig = @ + 1], "getRtcAnswer", "setRemoteDescription",
          offer, c.ntrig + 1, Null)

\* the continuation of getRtcAnswer with the .then of handleOffer, and of
\* sendOffer; the promise of handleAnswer has no continuation
RelayResume(c) ==
    LET t == Head(c.tasks)
        c0 == [Applied(c, t) EXCEPT !.tasks = Tail(@)] IN
    IF t.kind = "handleAnswer" THEN c0
    ELSE IF t.kind = "getRtcAnswer"
    THEN IF t.at = "setRemoteDescription"
         THEN Await(c0, t.kind, "createAnswer", Null, t.trig, AnswerTo(RemoteDescription(c0)))
         ELSE IF t.at = "createAnswer"
         THEN Await(c0, t.kind, "setLocalDescription", t.val, t.trig, t.val)
         ELSE RelaySend(c0, "receivedAnswers", "answer", t.val, t.trig)
    ELSE IF t.at = "createOffer"
         THEN Await(c0, t.kind, "setLocalDescription", t.val, t.trig, t.val)
         ELSE RelaySend(c0, "receivedOffers", "offer", t.val, t.trig)

\* ClientManager.getClientById: the first client with the id, 0 for null
RelayGetClientById(cs, id) ==
    LET S == {k \in 1..Len(cs) : cs[k].id = id}
    IN IF S = {} THEN 0 ELSE CHOOSE k \in S : \A j \in S : k <= j

\* ClientManager.addClient
RelayAddClient(cs, id, initiator) ==
    Append(cs, IF initiator THEN RelaySendOffer(RelayClientConnection(id, initiator))
               ELSE RelayClientConnection(id, initiator))

\* the for loop of connectClients from position i of destClientIds, positions
\* counted from 1: the clients it leaves, whether addMediaStream raised, and
\* the ids reported as routing errors
RECURSIVE ConnectLoop(_, _, _, _, _)
ConnectLoop(cs, destClientIds, i, srcStream, errors) ==
    IF i > Len(destClientIds) THEN [clients |-> cs, threw |-> FALSE, errors |-> errors]
    ELSE LET destClient == RelayGetClientById(cs, destClientIds[i]) IN
         IF destClient = 0
         THEN ConnectLoop(cs, destClientIds, i + 1, srcStream, Append(errors, destClientIds[i]))
         ELSE IF addMediaStreamThrows(cs[destClient], srcStream)
              THEN [clients |-> cs, threw |-> TRUE, errors |-> errors]
              ELSE ConnectLoop(
                       [cs EXCEPT ![destClient] =
                            RelayRenegotiateWebRTC(addMediaStream(@, srcStream))],
                       destClientIds, i + 1, srcStream, errors)

\* the position connectClients starts from: `let i = 1` over an array whose
\* first element is at 0, that is the second destination
FirstDest == 2

\* ConnectionManager.connectClients
connectClients(cs, srcClientId, destClientIds) ==
    LET srcClient == RelayGetClientById(cs, srcClientId) IN
    IF srcClient = 0 THEN [clients |-> cs, threw |-> FALSE, errors |-> <<srcClientId>>]
    ELSE LET srcStream == IF Len(cs[srcClient].clientStreams) = 0 THEN Absent
                          ELSE cs[srcClient].clientStreams[1]
         IN ConnectLoop(cs, destClientIds, FirstDest, srcStream, <<>>)

\* the documents of the commands collection
CommandDoc(command, client_id, src_client, dest_clients, id) ==
    [command |-> command, client_id |-> client_id, src_client |-> src_client,
     dest_clients |-> dest_clients, id |-> id]
RelayIds == {"alice", "bob", "carol"}
RelaySources == {"alice", "ghost"}
RelayDestLists == {<<"bob", "ghost", "carol">>, <<"bob">>, <<"ghost", "bob">>}
CommandDocs ==
    {CommandDoc("registerClient", id, Absent, <<>>, Absent) : id \in RelayIds}
    \cup {CommandDoc("addRoute", Absent, src, dests, Absent) :
              src \in RelaySources, dests \in RelayDestLists}
    \cup {CommandDoc("renegotiate", Absent, Absent, <<>>, id) : id \in {"bob", "ghost"}}
    \cup {CommandDoc("restart", Absent, Absent, <<>>, Absent),
          CommandDoc(Absent, Absent, Absent, <<>>, Absent)}
OfferDocs == {[id |-> id, offer |-> offer] : id \in {"alice", "ghost"}, offer \in {"sdp1", Absent}}

RelayMoreEvents == nEvents < MaxRelayEvents

\* SignalManager.handleCommand on an added document
HandleCommand(docData) ==
    /\ Running /\ RelayMoreEvents
    /\ IF docData.command = "registerClient"
       THEN /\ Len(Clients) < MaxRelayClients
            /\ Clients' = RelayAddClient(Clients, docData.client_id, FALSE)
            /\ UNCHANGED <<routingErrors, uncaught>>
       ELSE IF docData.command = "addRoute"
       THEN LET r == connectClients(Clients, docData.src_client, docData.dest_clients) IN
            /\ Clients' = r.clients
            /\ routingErrors' = r.errors
            /\ uncaught' = r.threw
       ELSE IF docData.command = "renegotiate"
       THEN LET client == RelayGetClientById(Clients, docData.id) IN
            /\ Clients' = IF client = 0 THEN Clients
                          ELSE [Clients EXCEPT ![client] = RelayRenegotiateWebRTC(@)]
            /\ UNCHANGED <<routingErrors, uncaught>>
       ELSE UNCHANGED <<Clients, routingErrors, uncaught>>
    /\ lastEvt' = Evt("command", 0, docData, "none")
    /\ nEvents' = nEvents + 1
    /\ UNCHANGED notRelay

\* SignalManager.handleOffer on an added document
HandleOffer(docData) ==
    /\ Running /\ RelayMoreEvents
    /\ LET client == RelayGetClientById(Clients, docData.id) IN
        Clients' = IF client = 0 \/ docData.offer = Absent THEN Clients
                   ELSE [Clients EXCEPT ![client] = RelayHandleOffer(@, docData.offer)]
    /\ lastEvt' = Evt("offer", 0, docData, "none")
    /\ nEvents' = nEvents + 1
    /\ UNCHANGED <<routingErrors, uncaught, notRelay>>

\* peerConnection.ontrack: clientStreams.push(event.streams[0])
RelayOnTrack(i, stream) ==
    /\ Running /\ RelayMoreEvents
    /\ RemoteDescription(Clients[i]) # Null
    /\ Clients' = [Clients EXCEPT ![i].clientStreams = Append(@, stream)]
    /\ lastEvt' = Evt("track", i, NoReq, "none")
    /\ nEvents' = nEvents + 1
    /\ UNCHANGED <<routingErrors, uncaught, notRelay>>

RelayEngineResolve(i) ==
    /\ Running
    /\ Clients[i].tasks # <<>> /\ Acceptable(Clients[i], Head(Clients[i].tasks))
    /\ Clients' = [Clients EXCEPT ![i] = RelayResume(@)]
    /\ lastEvt' = Evt("resolve", i, NoReq, "none")
    /\ UNCHANGED <<routingErrors, uncaught, nEvents, notRelay>>

RelayEngineReject(i) ==
    /\ Running
    /\ Clients[i].tasks # <<>> /\ ~Acceptable(Clients[i], Head(Clients[i].tasks))
    /\ Clients' = [Clients EXCEPT ![i].tasks = Tail(@)]
    /\ uncaught' = TRUE
    /\ lastEvt' = Evt("reject", i, NoReq, "none")
    /\ UNCHANGED <<routingErrors, nEvents, notRelay>>

NextRelay ==
    \/ \E docData \in CommandDocs : HandleCommand(docData)
    \/ \E docData \in OfferDocs : HandleOffer(docData)
    \/ \E i \in DOMAIN Clients, stream \in Streams : RelayOnTrack(i, stream)
    \/ \E i \in DOMAIN Clients : RelayEngineResolve(i)
    \/ \E i \in DOMAIN Clients : RelayEngineReject(i)

SpecRelay == Init /\ [][NextRelay]_vars

(***************************************************************************)
(* The relay node's signalling: the listeners of the receivedOffers,       *)
(* receivedAnswers and receivedIce collections, on documents that carry    *)
(* the fields a peer may write.                                            *)
(***************************************************************************)
SignalDoc(id, token, offer, answer, ice) ==
    [id |-> id, token |-> token, offer |-> offer, answer |-> answer, ice |-> ice]

\* ClientConnection.handleAnswer: setRemoteDescription is called and its
\* promise is left alone
RelayHandleAnswer(c, answer) ==
    Await([c EXCEPT !.ntrig = @ + 1], "handleAnswer", "setRemoteDescription",
          answer, c.ntrig + 1, Null)

\* ClientConnection.handleIce
RelayHandleIce(c, candidate) == Call(c, "addIceCandidate", candidate, 0)

SignalIds == {"alice", "ghost"}
SignalOfferDocs ==
    {SignalDoc(id, t, offer, Absent, Absent) :
        id \in SignalIds, t \in RawTokens, offer \in {"sdp1", Absent}}
SignalAnswerDocs ==
    {SignalDoc(id, t, offer, answer, Absent) :
        id \in SignalIds, t \in RawTokens, offer \in {"sdp1", Absent},
        answer \in {"sdp2", Absent}}
SignalIceDocs ==
    {SignalDoc(id, t, offer, Absent, ice) :
        id \in SignalIds, t \in RawTokens, offer \in {"sdp1", Absent},
        ice \in {WithCandidate, Absent}}

\* a registered client, and one whose offer has been answered
SignalRegistries ==
    {<<RelayClientConnection("alice", FALSE)>>,
     <<RelayResume(RelayResume(RelayResume(
           RelayHandleOffer(RelayClientConnection("alice", FALSE), "sdp1"))))>>}

InitSignal ==
    /\ clients = <<>>
    /\ NODE_ID = Absent
    /\ Clients \in SignalRegistries
    /\ protoClients = <<>>
    /\ idx = [clients |-> <<>>, removed |-> <<>>]
    /\ boot = Booted
    /\ routingErrors = <<>>
    /\ uncaught = FALSE
    /\ nEvents = 0
    /\ lastEvt = Evt("init", 0, NoReq, "none")

SignalMoreEvents == nEvents < MaxSignalEvents

\* SignalManager.handleOffer on an added document
SignalOffer(docData) == SignalMoreEvents /\ HandleOffer(docData)

\* SignalManager.handleAnswer on an added document
HandleAnswer(docData) ==
    /\ Running /\ SignalMoreEvents
    /\ LET client == RelayGetClientById(Clients, docData.id) IN
        Clients' = IF client = 0 \/ docData.answer = Absent THEN Clients
                   ELSE [Clients EXCEPT ![client] = RelayHandleAnswer(@, docData.offer)]
    /\ lastEvt' = Evt("answer", 0, docData, "none")
    /\ nEvents' = nEvents + 1
    /\ UNCHANGED <<routingErrors, uncaught, notRelay>>

\* SignalManager.handleICE on an added document
HandleICE(docData) ==
    /\ Running /\ SignalMoreEvents
    /\ LET client == RelayGetClientById(Clients, docData.id) IN
        Clients' = IF client = 0 \/ docData.ice = Absent THEN Clients
                   ELSE [Clients EXCEPT ![client] = RelayHandleIce(@, docData.offer)]
    /\ lastEvt' = Evt("ice", 0, docData, "none")
    /\ nEvents' = nEvents + 1
    /\ UNCHANGED <<routingErrors, uncaught, notRelay>>

NextSignal ==
    \/ \E docData \in SignalOfferDocs : SignalOffer(docData)
    \/ \E docData \in SignalAnswerDocs : HandleAnswer(docData)
    \/ \E docData \in SignalIceDocs : HandleICE(docData)
    \/ \E i \in DOMAIN Clients : RelayEngineResolve(i)
    \/ \E i \in DOMAIN Clients : RelayEngineReject(i)

SpecSignal == InitSignal /\ [][NextSignal]_vars

(***************************************************************************)
(* The live node receiving the operator's actions, on client sessions and  *)
(* on the management socket.                                               *)
(***************************************************************************)
OperatorIds == {"alice", "bob"}
OperatorTexts ==
    UNION {{JsonText("setId", "node-7", id, t),
            JsonText("connect", "ws://peer:8081", id, t),
            JsonArrayText("addRoute", <<"alice", "bob">>, id, t)} :
               id \in OperatorIds, t \in RawTokens}
OperatorManagementTexts ==
    {JsonText("setId", "node-7", Absent, Absent),
     JsonText("connect", "ws://peer:8081", Absent, Absent),
     JsonArrayText("addRoute", <<"alice", "bob">>, Absent, Absent)}
OperatorRegistries ==
    {<<StreamingSession("alice"), BoundSession("bob"), DialledSession>>,
     <<StreamingSession("alice")>>}

InitOperator ==
    /\ clients \in OperatorRegistries
    /\ NODE_ID = Absent
    /\ Clients = <<>>
    /\ protoClients = <<>>
    /\ idx = [clients |-> <<>>, removed |-> <<>>]
    /\ boot = Booted
    /\ routingErrors = <<>>
    /\ uncaught = FALSE
    /\ nEvents = 0
    /\ lastEvt = Evt("init", 0, NoReq, "none")

OperatorMoreEvents == nEvents < MaxOperatorEvents
OperatorInboundMessage(i, msg) == OperatorMoreEvents /\ InboundMessage(i, msg)
OperatorOutboundMessage(i, msg) == OperatorMoreEvents /\ OutboundMessage(i, msg)
OperatorManagementMessage(msg) == OperatorMoreEvents /\ ManagementMessage(msg)

NextOperator ==
    \/ \E i \in DOMAIN clients, msg \in OperatorTexts : OperatorInboundMessage(i, msg)
    \/ \E i \in DOMAIN clients, msg \in OperatorTexts : OperatorOutboundMessage(i, msg)
    \/ \E msg \in OperatorManagementTexts : OperatorManagementMessage(msg)

SpecOperator == InitOperator /\ [][NextOperator]_vars

(***************************************************************************)
(* The live node with sessions that an authentication failure has already  *)
(* closed: what a further message does to them.                            *)
(***************************************************************************)
\* an accepted session whose offer is suspended at its first await
OfferingSession(id) ==
    InboundOnClientMessage(ClientConnection("inbound", "open"),
                           JsonText("offer", "sdp1", id, SharedSecret)).c

\* the session a message with a foreign id has closed
ClosedSession(c) ==
    InboundOnClientMessage(c, JsonText("renegotiate", Absent, "mallory", SharedSecret)).c

\* registries whose session carol is closed; no text of the alphabet binds carol
CloseRegistries ==
    {<<ClosedSession(BoundSession("carol"))>>,
     <<ClosedSession(StreamingSession("carol")), BoundSession("bob")>>,
     <<BoundSession("alice"), ClosedSession(OfferingSession("carol"))>>}

InitClose ==
    /\ clients \in CloseRegistries
    /\ NODE_ID = Absent
    /\ Clients = <<>>
    /\ protoClients = <<>>
    /\ idx = [clients |-> <<>>, removed |-> <<>>]
    /\ boot = Booted
    /\ routingErrors = <<>>
    /\ uncaught = FALSE
    /\ nEvents = 0
    /\ lastEvt = Evt("init", 0, NoReq, "none")

CloseMoreEvents == nEvents < MaxCloseEvents
CloseInboundMessage(i, msg) == CloseMoreEvents /\ InboundMessage(i, msg)
CloseSocketClosed(i) == SocketClosed(i)

NextClose ==
    \/ \E i \in DOMAIN clients, msg \in ClientTexts : CloseInboundMessage(i, msg)
    \/ \E i \in DOMAIN clients : CloseSocketClosed(i)

SpecClose == InitClose /\ [][NextClose]_vars

(***************************************************************************)
(* The codec alone: a text is decoded by SockRequest, and the request is   *)
(* encoded again by SockResponse.generateGenericMessage with credentials.  *)
(***************************************************************************)
\* JSON objects with each field absent, null or given; a data field may be an
\* array; and a text that is not JSON
CodecTexts ==
    {JunkText}
    \cup {JsonText(a, d, i, t) :
              a \in {Absent, "", "offer"}, d \in {Absent, Null, "sdp1"},
              i \in {Absent, Null, "", "alice"}, t \in {Absent, "", SharedSecret}}
    \cup {JsonArrayText(a, <<"alice", "bob">>, i, t) :
              a \in {Absent, "addRoute"}, i \in {Absent, "alice"}, t \in {Absent, SharedSecret}}

\* JSON.stringify of the object generateGenericMessage builds from request req:
\* a property is written with its value, null included
stringify(m, items) ==
    [json |-> TRUE, action |-> m.action, data |-> m.data, items |-> items,
     id |-> m.id, token |-> m.token]

CodecMoreEvents == nEvents < MaxCodecEvents

\* new SockRequest(msg) on a received text
NewSockRequest(msg) ==
    /\ Running /\ CodecMoreEvents
    /\ lastEvt' = Evt("decode", 0, [text |-> msg, req |-> SockRequest(msg)], "none")
    /\ uncaught' = SockRequest(msg).threw
    /\ nEvents' = nEvents + 1
    /\ UNCHANGED <<clients, NODE_ID, routingErrors, notLive>>

\* SockResponse.generateGenericMessage(req.action, req.data, req.id, req.token, true)
\* on the request just decoded
GenerateFromRequest ==
    /\ Running /\ CodecMoreEvents
    /\ lastEvt.kind = "decode"
    /\ LET req == lastEvt.req.req IN
        lastEvt' = Evt("encode", 0,
                       [text |-> lastEvt.req.text, req |-> req,
                        out |-> stringify(generateGenericMessage(
                                    req.action, req.data, req.id, req.token, TRUE),
                                    req.items)],
                       "none")
    /\ nEvents' = nEvents + 1
    /\ UNCHANGED <<clients, NODE_ID, routingErrors, uncaught, notLive>>

NextCodec ==
    \/ \E msg \in CodecTexts : NewSockRequest(msg)
    \/ GenerateFromRequest

SpecCodec == Init /\ [][NextCodec]_vars

(***************************************************************************)
(* The second prototype: the socket server whose Client named "admin"      *)
(* routes streams, and whose clients leave the list when their socket      *)
(* closes.                                                                 *)
(***************************************************************************)
IdxJsonText(command, data, items, id, token) ==
    [json |-> TRUE, command |-> command, data |-> data, items |-> items,
     id |-> id, token |-> token]
IdxJunkText ==
    [json |-> FALSE, command |-> Absent, data |-> Absent, items |-> <<>>,
     id |-> Absent, token |-> Absent]

\* new Request(msg)
IdxRequest(msg) ==
    IF msg.json
    THEN [parseError |-> FALSE, command |-> msg.command, data |-> msg.data,
          items |-> msg.items, id |-> msg.id, token |-> msg.token]
    ELSE [parseError |-> TRUE, command |-> Absent, data |-> Null, items |-> <<>>,
          id |-> Absent, token |-> Absent]

IdxINVALID_REQUEST ==
    [message |-> Absent, sdp |-> Absent, candidate |-> Absent, error |-> TRUE]
RENEGOTIATE_RTC ==
    [message |-> "renegotiate", sdp |-> Absent, candidate |-> Absent, error |-> FALSE]

\* new Client(socket)
IdxClient ==
    [id_ |-> <<>>, isAdmin |-> FALSE, pc |-> "open", sock |-> "open",
     clientStream |-> <<>>, signalingState |-> "stable",
     log |-> <<>>, sent |-> <<>>, tasks |-> <<>>, ntrig |-> 0]

\* Client.getAuthentication: isAdmin is set before the token is looked at
IdxGetAuthentication(c, req) ==
    IF c.id_ # <<>> /\ c.id_[1] # req.id
    THEN [ok |-> FALSE, id_ |-> c.id_, isAdmin |-> c.isAdmin]
    ELSE [ok |-> (req.token = SharedSecret),
          id_ |-> IF c.id_ # <<>> THEN c.id_
                  ELSE IF req.id = Absent THEN <<>> ELSE <<req.id>>,
          isAdmin |-> (c.isAdmin \/ req.id = "admin")]

\* getClientById: the last client whose id is the string, 0 for null
IdxGetClientById(cs, id) ==
    LET S == {k \in 1..Len(cs) : cs[k].id_ = <<id>>}
    IN IF S = {} THEN 0 ELSE CHOOSE k \in S : \A j \in S : j <= k

\* the for loop of the connect case from position i of req.data (the source
\* is at position 1): `user` is used after the log line whether or not it is
\* null
RECURSIVE IdxConnectLoop(_, _, _, _)
IdxConnectLoop(cs, items, i, srcStream) ==
    IF i > Len(items) THEN [clients |-> cs, threw |-> FALSE]
    ELSE LET user == IdxGetClientById(cs, items[i]) IN
         IF user = 0 THEN [clients |-> cs, threw |-> TRUE]
         ELSE IF addMediaStreamThrows(cs[user], srcStream)
              THEN [clients |-> cs, threw |-> TRUE]
              ELSE IF sendThrows(cs[user]) THEN [clients |-> cs, threw |-> TRUE]
              ELSE IdxConnectLoop(
                       [cs EXCEPT ![user] =
                            send(addMediaStream(@, srcStream), RENEGOTIATE_RTC, 0)],
                       items, i + 1, srcStream)

\* Client.adminCommands
adminCommands(cs, req) ==
    IF req.command # "connect" THEN [clients |-> cs, threw |-> FALSE]
    ELSE IF req.data # ArrayData \/ Len(req.items) = 0 THEN [clients |-> cs, threw |-> TRUE]
    ELSE LET src == IdxGetClientById(cs, req.items[1]) IN
         IF src = 0 THEN [clients |-> cs, threw |-> TRUE]
         ELSE IdxConnectLoop(cs, req.items, 2,
                             IF cs[src].clientStream = <<>> THEN Absent
                             ELSE cs[src].clientStream[1])

\* Client.socketMessage of client i: the list it leaves, whether it raised,
\* and the verdict of getAuthentication
IdxSocketMessage(cs, i, msg) ==
    LET req == IdxRequest(msg)
        c == cs[i] IN
    IF req.parseError
    THEN [clients |-> [cs EXCEPT ![i] = send(c, IdxINVALID_REQUEST, 0)],
          threw |-> FALSE, auth |-> "none"]
    ELSE LET a == IdxGetAuthentication(c, req)
             c1 == [c EXCEPT !.id_ = a.id_, !.isAdmin = a.isAdmin]
             cs1 == [cs EXCEPT ![i] = c1]
         IN IF ~a.ok
            THEN [clients |-> [cs EXCEPT ![i] = close(send(c1, AUTH_FAILED, 0))],
                  threw |-> FALSE, auth |-> "fail"]
            ELSE IF c1.isAdmin
            THEN LET r == adminCommands(cs1, req)
                 IN [clients |-> r.clients, threw |-> r.threw, auth |-> "ok"]
            ELSE IF req.command = "offer"
            THEN [clients |-> [cs1 EXCEPT ![i] = processOffer(c1, Coalesce(req.data, Null))],
                  threw |-> FALSE, auth |-> "ok"]
            ELSE IF req.command = "iceCandidate"
            THEN IF CandidateThrows(Coalesce(req.data, Null))
                 THEN [clients |-> cs1, threw |-> TRUE, auth |-> "ok"]
                 ELSE IF HasCandidate(req.data)
                 THEN [clients |-> [cs1 EXCEPT ![i] = Call(c1, "addIceCandidate", req.data, 0)],
                       threw |-> FALSE, auth |-> "ok"]
                 ELSE [clients |-> cs1, threw |-> FALSE, auth |-> "ok"]
            ELSE [clients |-> cs1, threw |-> FALSE, auth |-> "ok"]

\* removeItem(clients, client)
removeItem(cs, i) == SubSeq(cs, 1, i - 1) \o SubSeq(cs, i + 1, Len(cs))

\* clients as socketMessage leaves them
IdxAdminClient ==
    IdxSocketMessage(<<IdxClient>>, 1,
                     IdxJsonText("disconnect", Absent, <<>>, "admin", SharedSecret)).clients[1]
IdxBoundClient(id) ==
    IdxSocketMessage(<<IdxClient>>, 1,
                     IdxJsonText("hello", Absent, <<>>, id, SharedSecret)).clients[1]
IdxStreamingClient(id) ==
    LET c == IdxSocketMessage(<<IdxClient>>, 1,
                              IdxJsonText("offer", "sdp1", <<>>, id, SharedSecret)).clients[1]
    IN [ProtoResume(ProtoResume(ProtoResume(c))) EXCEPT !.clientStream = <<"stream1">>]
IdxRegistries ==
    {<<>>,
     <<IdxAdminClient, IdxStreamingClient("alice")>>,
     <<IdxAdminClient, IdxStreamingClient("alice"), IdxBoundClient("bob")>>}

IdxTexts ==
    {IdxJunkText,
     IdxJsonText("offer", "sdp1", <<>>, "alice", SharedSecret),
     IdxJsonText("offer", "sdp1", <<>>, "bob", "bad"),
     IdxJsonText("iceCandidate", Absent, <<>>, "bob", SharedSecret),
     IdxJsonText("disconnect", Absent, <<>>, "admin", SharedSecret),
     IdxJsonText("connect", Absent, <<>>, "admin", SharedSecret)}
    \cup {IdxJsonText("connect", ArrayData, r, "admin", SharedSecret) :
              r \in {<<"alice", "bob">>, <<"alice", "ghost", "bob">>, <<"ghost", "bob">>}}

IdxMoreEvents == nEvents < MaxIdxEvents

InitIdx ==
    /\ clients = <<>>
    /\ NODE_ID = Absent
    /\ Clients = <<>>
    /\ protoClients = <<>>
    /\ idx \in {[clients |-> r, removed |-> <<>>] : r \in IdxRegistries}
    /\ boot = Booted
    /\ routingErrors = <<>>
    /\ uncaught = FALSE
    /\ nEvents = 0
    /\ lastEvt = Evt("init", 0, NoReq, "none")

\* server.on('connection')
IdxConnection ==
    /\ Running /\ IdxMoreEvents /\ Len(idx.clients) < MaxIdxClients
    /\ idx' = [idx EXCEPT !.clients = Append(@, IdxClient)]
    /\ lastEvt' = Evt("connection", Len(idx.clients) + 1, NoReq, "none")
    /\ nEvents' = nEvents + 1
    /\ UNCHANGED <<routingErrors, uncaught, notIdx>>

\* socket.onmessage of a client of the list
IdxMessage(i, msg) ==
    /\ Running /\ IdxMoreEvents
    /\ idx.clients[i].sock \in {"open", "closing"}
    /\ LET r == IdxSocketMessage(idx.clients, i, msg) IN
        /\ idx' = [idx EXCEPT !.clients = r.clients]
        /\ uncaught' = r.threw
        /\ lastEvt' = Evt("socketMessage", i, IdxRequest(msg), r.auth)
    /\ nEvents' = nEvents + 1
    /\ UNCHANGED <<routingErrors, notIdx>>

\* socket.onclose: the peer closed the socket, or the closing handshake that
\* socket.close() began has ended
IdxSocketClose(i) ==
    /\ Running
    /\ idx.clients[i].sock = "closing" \/ IdxMoreEvents
    /\ idx' = [clients |-> removeItem(idx.clients, i),
               removed |-> Append(idx.removed, [idx.clients[i] EXCEPT !.sock = "closed"])]
    /\ lastEvt' = Evt("close", i, NoReq, "none")
    /\ nEvents' = IF idx.clients[i].sock = "closing" THEN nEvents ELSE nEvents + 1
    /\ UNCHANGED <<routingErrors, uncaught, notIdx>>

\* peerConnection.ontrack: [this.clientStream] = event.streams
IdxOnTrack(i, stream) ==
    /\ Running /\ IdxMoreEvents
    /\ idx.clients[i].pc = "open" /\ RemoteDescription(idx.clients[i]) # Null
    /\ idx' = [idx EXCEPT !.clients[i].clientStream = <<stream>>]
    /\ lastEvt' = Evt("track", i, NoReq, "none")
    /\ nEvents' = nEvents + 1
    /\ UNCHANGED <<routingErrors, uncaught, notIdx>>

\* the engine settles the call processOffer awaits
IdxEngineResolve(i) ==
    /\ Running
    /\ idx.clients[i].tasks # <<>>
    /\ Acceptable(idx.clients[i], Head(idx.clients[i].tasks))
    /\ idx' = [idx EXCEPT !.clients[i] = ProtoResume(@)]
    /\ lastEvt' = Evt("resolve", i, NoReq, "none")
    /\ UNCHANGED <<routingErrors, uncaught, nEvents, notIdx>>

IdxEngineReject(i) ==
    /\ Running
    /\ idx.clients[i].tasks # <<>>
    /\ ~Acceptable(idx.clients[i], Head(idx.clients[i].tasks)) \/ idx.clients[i].pc = "closed"
    /\ idx' = [idx EXCEPT !.clients[i].tasks = Tail(@)]
    /\ uncaught' = TRUE
    /\ lastEvt' = Evt("reject", i, NoReq, "none")
    /\ UNCHANGED <<routingErrors, nEvents, notIdx>>

NextIdx ==
    \/ IdxConnection
    \/ \E i \in DOMAIN idx.clients, msg \in IdxTexts : IdxMessage(i, msg)
    \/ \E i \in DOMAIN idx.clients : IdxSocketClose(i)
    \/ \E i \in DOMAIN idx.clients, stream \in Streams : IdxOnTrack(i, stream)
    \/ \E i \in DOMAIN idx.clients : IdxEngineResolve(i)
    \/ \E i \in DOMAIN idx.clients : IdxEngineReject(i)

SpecIdx == InitIdx /\ [][NextIdx]_vars

(***************************************************************************)
(* Bootstrap of the live node: init writes the registration document,      *)
(* subscribes to it, and on a snapshot that carries management_socket      *)
(* opens the management socket, starts the server, deletes the document    *)
(* and unsubscribes.  The management server is the other writer of the     *)
(* document.  A handler is an async function: it runs to its next await    *)
(* and its continuation is a later step.                                   *)
(***************************************************************************)
Remove(seq, h) == SubSeq(seq, 1, h - 1) \o SubSeq(seq, h + 1, Len(seq))
Handler(snap, at) == [snap |-> snap, at |-> at]

InitBoot ==
    /\ clients = <<>>
    /\ NODE_ID = Absent
    /\ Clients = <<>>
    /\ protoClients = <<>>
    /\ idx = [clients |-> <<>>, removed |-> <<>>]
    /\ boot = Booting
    /\ routingErrors = <<>>
    /\ uncaught = FALSE
    /\ nEvents = 0
    /\ lastEvt = Evt("init", 0, NoReq, "none")

\* await docRef.set(data): the store applies the write
BootSet ==
    /\ Running /\ boot.at = "start"
    /\ boot' = [boot EXCEPT !.at = "written", !.doc = Document("unassigned", 1)]
    /\ UNCHANGED <<clients, uncaught, nEvents, notBoot>>

\* let unsub = docRef.onSnapshot(...)
BootSubscribe ==
    /\ Running /\ boot.at = "written"
    /\ boot' = [boot EXCEPT !.at = "listening", !.sub = TRUE]
    /\ UNCHANGED <<clients, uncaught, nEvents, notBoot>>

\* the management server writes the document: the first write assigns
\* management_socket, a later one leaves it in place
StoreWrite ==
    /\ Running
    /\ boot.doc.state \in {"unassigned", "assigned"}
    /\ boot.doc.ver <= MaxStoreWrites
    /\ boot' = [boot EXCEPT !.doc = Document("assigned", boot.doc.ver + 1),
                            !.assignedOnce = TRUE]
    /\ UNCHANGED <<clients, uncaught, nEvents, notBoot>>

\* the snapshot listener is called with the document as it is now; it returns
\* at once when db_read is set and otherwise suspends at `await snapshot.data()`
BootSnapshot ==
    /\ Running /\ boot.sub
    /\ boot.seenVer # boot.doc.ver
    /\ boot' = [boot EXCEPT !.seenVer = boot.doc.ver, !.seenState = boot.doc.state,
                            !.handlers = IF boot.db_read THEN @
                                         ELSE Append(@, Handler(boot.doc.state, "data"))]
    /\ UNCHANGED <<clients, uncaught, nEvents, notBoot>>

\* the handler after `data = await snapshot.data()`, up to `await docRef.delete()`;
\* data is undefined for a snapshot of the deleted document, and a second
\* server on the same port raises an 'error' event nothing listens to
BootAssignedUnchecked(b, h) ==
    [b EXCEPT !.db_read = TRUE, !.observed = @ \/ b.handlers[h].snap = "assigned",
              !.managementSockets = @ + 1, !.servers = @ + 1,
              !.handlers[h].at = "delete"]
BootAssigned(b, h) ==
    IF b.handlers[h].snap = "assigned"
    THEN [b EXCEPT !.db_read = TRUE, !.observed = TRUE,
                   !.managementSockets = @ + 1, !.servers = @ + 1,
                   !.handlers[h].at = "delete"]
    ELSE [b EXCEPT !.handlers = Remove(@, h), !.unassignedSeen = TRUE]
BootContinue(h) ==
    /\ Running /\ boot.handlers[h].at = "data"
    /\ boot' = IF boot.handlers[h].snap = "none"
               THEN [boot EXCEPT !.handlers = Remove(@, h)]
               ELSE BootAssigned(boot, h)
    /\ uncaught' = (boot.handlers[h].snap = "none"
                       \/ (boot.handlers[h].snap = "assigned" /\ boot.servers >= 1))
    /\ UNCHANGED <<clients, nEvents, notBoot>>

\* the store applies docRef.delete()
BootDelete(h) ==
    /\ Running /\ boot.handlers[h].at = "delete"
    /\ boot' = [boot EXCEPT !.doc = Document("none", boot.doc.ver + 1),
                            !.deletes = @ + 1, !.handlers[h].at = "unsub"]
    /\ UNCHANGED <<clients, uncaught, nEvents, notBoot>>

\* the handler after `await docRef.delete()`: unsub()
BootUnsub(h) ==
    /\ Running /\ boot.handlers[h].at = "unsub"
    /\ boot' = [boot EXCEPT !.sub = FALSE, !.handlers = Remove(@, h)]
    /\ UNCHANGED <<clients, uncaught, nEvents, notBoot>>

\* server.on('connection') of a server init has started
BootConnection ==
    /\ Running /\ boot.servers >= 1
    /\ Len(clients) < MaxBootSessions
    /\ clients' = Append(clients, ClientConnection("inbound", "open"))
    /\ UNCHANGED <<boot, uncaught, nEvents, notBoot>>

NextBoot ==
    \/ BootSet
    \/ BootSubscribe
    \/ StoreWrite
    \/ BootSnapshot
    \/ \E h \in DOMAIN boot.handlers : BootContinue(h)
    \/ \E h \in DOMAIN boot.handlers : BootDelete(h)
    \/ \E h \in DOMAIN boot.handlers : BootUnsub(h)
    \/ BootConnection

SpecBoot == InitBoot /\ [][NextBoot]_vars

(***************************************************************************)
(* Bootstrap of the relay node: init subscribes to the query for its own   *)
(* registration document; the listener first writes the document with      *)
(* registered: false, then looks for a "modified" change whose document    *)
(* has registered set, and on one unsubscribes, deletes the document and   *)
(* starts the router.  A query snapshot shows the document as it is when   *)
(* the snapshot is taken, and the type of its change is relative to the    *)
(* snapshot the listener got before.                                       *)
(***************************************************************************)
RelayHandler(snap, change, at) == [snap |-> snap, change |-> change, at |-> at]

\* querySnapshot.docChanges(): the type of the one change, "none" for no change
ChangeType(seenState, state) ==
    IF seenState = "none" THEN (IF state = "none" THEN "none" ELSE "added")
    ELSE IF state = "none" THEN "removed" ELSE "modified"

InitRelayBoot ==
    /\ clients = <<>>
    /\ NODE_ID = Absent
    /\ Clients = <<>>
    /\ protoClients = <<>>
    /\ idx = [clients |-> <<>>, removed |-> <<>>]
    /\ boot = Booting
    /\ routingErrors = <<>>
    /\ uncaught = FALSE
    /\ nEvents = 0
    /\ lastEvt = Evt("init", 0, NoReq, "none")

\* let unsub = newInstanceDbRef.onSnapshot(...)
RelayBootSubscribe ==
    /\ boot.at = "start"
    /\ boot' = [boot EXCEPT !.at = "listening", !.sub = TRUE]
    /\ UNCHANGED <<clients, NODE_ID, uncaught, nEvents, notBoot>>

\* the management server sets registered on the document
RelayStoreRegister ==
    /\ boot.doc.state = "unassigned"
    /\ boot.doc.ver <= MaxStoreWrites
    /\ boot' = [boot EXCEPT !.doc = Document("assigned", boot.doc.ver + 1),
                            !.assignedOnce = TRUE]
    /\ UNCHANGED <<clients, NODE_ID, uncaught, nEvents, notBoot>>

\* the listener is called with a query snapshot and suspends at
\* `await docRef.set(data)`
RelayBootSnapshot ==
    /\ boot.sub
    /\ boot.seenVer # boot.doc.ver
    /\ boot' = [boot EXCEPT !.seenVer = boot.doc.ver, !.seenState = boot.doc.state,
                            !.handlers =
                                Append(@, RelayHandler(boot.doc.state,
                                                       ChangeType(boot.seenState,
                                                                  boot.doc.state),
                                                       "set"))]
    /\ UNCHANGED <<clients, NODE_ID, uncaught, nEvents, notBoot>>

\* the store applies docRef.set(data), data being {..., registered: false}; a
\* write that changes nothing is not a new version
RelayBootSet(h) ==
    /\ boot.handlers[h].at = "set"
    /\ boot.doc.state = "unassigned" \/ boot.doc.ver <= MaxStoreWrites + 2
    /\ boot' = [boot EXCEPT !.doc = IF boot.doc.state = "unassigned" THEN @
                                    ELSE Document("unassigned", boot.doc.ver + 1),
                            !.handlers[h].at = "loop"]
    /\ UNCHANGED <<clients, NODE_ID, uncaught, nEvents, notBoot>>

\* the for loop over docChanges(), up to `await docRef.delete()`
RelayBootLoop(b, h) ==
    IF b.handlers[h].change = "modified" /\ b.handlers[h].snap = "assigned"
    THEN [b EXCEPT !.sub = FALSE, !.observed = TRUE, !.handlers[h].at = "delete"]
    ELSE [b EXCEPT !.handlers = Remove(@, h), !.unassignedSeen = TRUE]
RelayBootContinue(h) ==
    /\ boot.handlers[h].at = "loop"
    /\ boot' = RelayBootLoop(boot, h)
    /\ UNCHANGED <<clients, NODE_ID, uncaught, nEvents, notBoot>>

\* the store applies docRef.delete()
RelayBootDelete(h) ==
    /\ boot.handlers[h].at = "delete"
    /\ boot' = [boot EXCEPT !.doc = Document("none", boot.doc.ver + 1),
                            !.deletes = @ + 1, !.handlers[h].at = "startRouter"]
    /\ UNCHANGED <<clients, NODE_ID, uncaught, nEvents, notBoot>>

\* await startRouter(): NODE_ID = NODE_INSTANCE_NAME; new SignalManager()
startRouter(h) ==
    /\ boot.handlers[h].at = "startRouter"
    /\ boot' = [boot EXCEPT !.servers = @ + 1, !.handlers = Remove(@, h)]
    /\ NODE_ID' = "default"
    /\ UNCHANGED <<clients, Clients, protoClients, idx, routingErrors, lastEvt, uncaught,
                   nEvents>>

\* the oldest suspended handler resumes
RelayBootResume ==
    /\ boot.handlers # <<>>
    /\ \/ RelayBootSet(1)
       \/ RelayBootContinue(1)
       \/ RelayBootDelete(1)
       \/ startRouter(1)

NextRelayBoot ==
    \/ RelayStoreRegister
    \/ RelayBootSubscribe
    \/ RelayBootSnapshot
    \/ \E h \in DOMAIN boot.handlers : RelayBootSet(h)
    \/ \E h \in DOMAIN boot.handlers : RelayBootContinue(h)
    \/ \E h \in DOMAIN boot.handlers : RelayBootDelete(h)
    \/ \E h \in DOMAIN boot.handlers : startRouter(h)

\* init runs, every notification is delivered and every suspended handler
\* resumes; the management server is not obliged to write
SpecRelayBootFair ==
    /\ InitRelayBoot /\ [][NextRelayBoot]_vars
    /\ WF_vars(RelayBootSubscribe)
    /\ WF_vars(RelayBootSnapshot)
    /\ WF_vars(RelayBootResume)

(***************************************************************************)
(* Properties of the live node.                                            *)
(***************************************************************************)
Inbound == {i \in DOMAIN clients : clients[i].role = "inbound"}
Outbound == {i \in DOMAIN clients : clients[i].role = "outbound"}

\* the last step handled a decodable message on session i
Handled(evt, i) == evt.kind = "message" /\ evt.sess = i /\ ~evt.req.parseError

\* the gate of section 4.2 on a session and a request
GatePasses(c, req) == (c.id_ = <<>> \/ c.id_[1] = req.id) /\ req.token = SharedSecret

LogEntry(op, arg, trig) == [op |-> op, arg |-> arg, trig |-> trig]
CallsOf(c, op, t) == {k \in 1..Len(c.log) : c.log[k].op = op /\ c.log[k].trig = t}
AnswersOf(c, t) ==
    {k \in 1..Len(c.sent) : c.sent[k].trig = t /\ c.sent[k].msg.action = "answer"}
Outstanding(c, t) == \E k \in 1..Len(c.tasks) : c.tasks[k].trig = t

\* no engine call of a later trigger is made while an earlier trigger's
\* sequence is still outstanding
QueuedBehind(c) ==
    \A k \in 1..Len(c.tasks), p \in 1..Len(c.log) : c.log[p].trig <= c.tasks[k].trig

\* the negotiation calls of two triggers do not alternate in the log
NotInterleaved(c) ==
    \A p, q, r \in 1..Len(c.log) :
        (p < q /\ q < r /\ c.log[p].trig # 0 /\ c.log[q].trig # 0
            /\ c.log[p].trig = c.log[r].trig) => c.log[q].trig = c.log[p].trig

\* C1: on an accepting session a bound identity never changes, and a later
\* message whose id differs from it fails authentication.
C1_IdentityNeverChanges ==
    [][\A i \in Inbound :
          clients[i].id_ # <<>> =>
              /\ clients'[i].id_ = clients[i].id_
              /\ (Handled(lastEvt', i) /\ lastEvt'.req.id # clients[i].id_[1])
                     => lastEvt'.ok = "fail"]_vars

\* a session bound to alice has just refused a message that claims bob with
\* the right token
C1_Witness ==
    /\ lastEvt.kind = "message" /\ lastEvt.ok = "fail"
    /\ lastEvt.req.id = "bob" /\ lastEvt.req.token = SharedSecret
    /\ clients[lastEvt.sess].role = "inbound"
    /\ clients[lastEvt.sess].id_ = <<"alice">>

\* C2: on an accepting session the negotiations of two offers are never
\* concurrent: the second sequence starts only after the first has finished,
\* no offer is dropped, and the answers leave in the order of the offers.
C2_OffersSerialised ==
    \A i \in Inbound :
        LET c == clients[i] IN
        /\ QueuedBehind(c)
        /\ NotInterleaved(c)
        /\ \A t \in 1..c.ntrig : CallsOf(c, "setRemoteDescription", t) # {}
        /\ \A k, l \in 1..Len(c.sent) :
               (k < l /\ c.sent[k].msg.action = "answer" /\ c.sent[l].msg.action = "answer")
                   => c.sent[k].trig < c.sent[l].trig

\* C3: on an initiating session a negotiation trigger that arrives while an
\* earlier createOffer/setLocalDescription sequence is outstanding is queued
\* behind it: the engine calls of the two triggers are never interleaved.
C3_TriggersSerialised ==
    \A i \in Outbound : QueuedBehind(clients[i]) /\ NotInterleaved(clients[i])

\* C4: handling a message that fails authentication makes no engine call and
\* emits nothing, on any session.
C4_FailedAuthNotProcessed ==
    [][(lastEvt'.kind = "message" /\ lastEvt'.ok = "fail") =>
          \A j \in DOMAIN clients :
              /\ clients'[j].log = clients[j].log
              /\ clients'[j].tasks = clients[j].tasks
              /\ clients'[j].sent = clients[j].sent]_vars

\* an offer with a description has just failed authentication
C4_Witness ==
    /\ lastEvt.kind = "message" /\ lastEvt.ok = "fail"
    /\ lastEvt.req.action = "offer" /\ lastEvt.req.data \in Sdps

\* C6: on an accepting session every decodable message whose token is not the
\* shared secret fails authentication, the first one and the later ones.
C6_TokenCheckedOnEveryMessage ==
    (lastEvt.kind = "message" /\ ~lastEvt.req.parseError
        /\ clients[lastEvt.sess].role = "inbound"
        /\ lastEvt.req.token # SharedSecret) => lastEvt.ok = "fail"

\* a session that had an offer accepted has just refused a message with its
\* own id and a bad token
C6_Witness ==
    /\ lastEvt.kind = "message" /\ lastEvt.ok = "fail"
    /\ clients[lastEvt.sess].role = "inbound"
    /\ clients[lastEvt.sess].log # <<>>
    /\ clients[lastEvt.sess].id_ = <<lastEvt.req.id>>
    /\ lastEvt.req.token = "bad"

\* C7: an accepting session runs the gate on every decodable message before
\* it dispatches the action; an initiating session never runs it: it handles
\* answer, renegotiate and addICE whatever id and token they carry, binds no
\* identity and is never closed by a message.
C7_TrustAsymmetry ==
    [][\A i \in DOMAIN clients :
          Handled(lastEvt', i) =>
              LET req == lastEvt'.req
                  c == clients[i]
                  d == clients'[i]
              IN IF c.role = "inbound"
                 THEN /\ lastEvt'.ok = IF GatePasses(c, req) THEN "ok" ELSE "fail"
                      /\ d.id_ # <<>>
                      /\ lastEvt'.ok = "fail" => (d.log = c.log /\ d.tasks = c.tasks)
                 ELSE /\ lastEvt'.ok = "none"
                      /\ d.id_ = <<>> /\ d.pc = "open" /\ d.sock = "open"
                      /\ req.action = "answer" =>
                             d.log = Append(c.log,
                                 LogEntry("setRemoteDescription", req.data, c.ntrig + 1))
                      /\ req.action = "renegotiate" =>
                             d.log = Append(c.log, LogEntry("createOffer", Null, c.ntrig + 1))
                      /\ (req.action = "addICE" /\ HasCandidate(req.data)) =>
                             d.log = Append(c.log, LogEntry("addIceCandidate", req.data, 0))]_vars

\* an initiating session has just applied an answer that came with a foreign
\* id and a bad token
C7_Witness ==
    /\ lastEvt.kind = "message"
    /\ lastEvt.req.action = "answer" /\ lastEvt.req.id = "bob" /\ lastEvt.req.token = "bad"
    /\ clients[lastEvt.sess].role = "outbound"
    /\ clients[lastEvt.sess].pc = "open"
    /\ \E k \in 1..Len(clients[lastEvt.sess].log) :
           clients[lastEvt.sess].log[k].op = "setRemoteDescription"

\* the offer of trigger t was applied, answered and the answer set, in that
\* order, each once, and exactly one answer message carries that answer
OfferAnswered(c, t) ==
    /\ Cardinality(AnswersOf(c, t)) = 1
    /\ \E p \in CallsOf(c, "setRemoteDescription", t), q \in CallsOf(c, "createAnswer", t),
          r \in CallsOf(c, "setLocalDescription", t) :
           /\ p < q /\ q < r
           /\ \A k \in AnswersOf(c, t) : c.sent[k].msg.data = c.log[r].arg
    /\ \A op \in {"setRemoteDescription", "createAnswer", "setLocalDescription"} :
           Cardinality(CallsOf(c, op, t)) = 1

C9_CredentialsOnlyFromInitiator ==
    \A i \in DOMAIN clients :
        \A k \in 1..Len(clients[i].sent) :
            LET m == clients[i].sent[k].msg IN
            IF clients[i].role = "inbound"
            THEN /\ m.action \in {"answer", "addICE", "renegotiate"}
                 /\ m.id = Absent /\ m.token = Absent
            ELSE /\ m.action \in {"offer", "addICE"}
                 /\ m.id = NODE_INSTANCE_NAME /\ m.token = NODE_AUTH

\* an accepting session has emitted an answer and an ICE candidate
C9_Witness ==
    \E i \in Inbound :
        /\ \E k \in 1..Len(clients[i].sent) : clients[i].sent[k].msg.action = "answer"
        /\ \E k \in 1..Len(clients[i].sent) : clients[i].sent[k].msg.action = "addICE"

\* C5: when a message fails authentication on an accepting session, the
\* session's socket and its peer connection are both closed.
C5_FailedAuthClosesSession ==
    /\ (lastEvt.kind = "message" /\ lastEvt.ok = "fail") =>
           (clients[lastEvt.sess].sock # "open" /\ clients[lastEvt.sess].pc = "closed")
    /\ (lastEvt.kind = "socketMessage" /\ lastEvt.ok = "fail") =>
           (protoClients[lastEvt.sess].sock # "open"
               /\ protoClients[lastEvt.sess].pc = "closed")

\* the destinations of a list that are not in the registry, in order
RECURSIVE MissingOf(_, _)
MissingOf(cs, ids) ==
    IF ids = <<>> THEN <<>>
    ELSE (IF RelayGetClientById(cs, Head(ids)) = 0 THEN <<Head(ids)>> ELSE <<>>)
             \o MissingOf(cs, Tail(ids))

\* C10: after a route command whose source is registered and has a stream,
\* every destination of the command that is registered, the first one listed
\* included, has the source's stream attached and a renegotiation request
\* emitted, and the failures recorded are exactly the unregistered
\* destinations.
C10_RouteReachesEveryDestination ==
    (lastEvt.kind = "command" /\ lastEvt.req.command = "addRoute" /\ ~uncaught) =>
        LET src == RelayGetClientById(Clients, lastEvt.req.src_client)
            dests == lastEvt.req.dest_clients
        IN (src # 0 /\ Clients[src].clientStreams # <<>>) =>
               /\ \A k \in 1..Len(dests) :
                      LET d == RelayGetClientById(Clients, dests[k]) IN
                      d # 0 =>
                          /\ \E p \in 1..Len(Clients[d].log) :
                                 /\ Clients[d].log[p].op = "addTrack"
                                 /\ Clients[d].log[p].arg = Clients[src].clientStreams[1]
                          /\ \E p \in 1..Len(Clients[d].sent) :
                                 Clients[d].sent[p].value = "renegotiate"
               /\ routingErrors = MissingOf(Clients, dests)

(***************************************************************************)
(* Properties of routing.                                                  *)
(***************************************************************************)
\* the last step handled an addRoute command of the management channel
Routed(evt) ==
    evt.kind = "management" /\ ~evt.req.threw /\ evt.req.action = "addRoute"
        /\ evt.req.data = ArrayData /\ Len(evt.req.items) > 0

\* the engine calls c made that b had not made yet
NewCalls(b, c) == SubSeq(c.log, Len(b.log) + 1, Len(c.log))
NewSent(b, c) == SubSeq(c.sent, Len(b.sent) + 1, Len(c.sent))
Attached(calls, stream) ==
    \E p \in 1..Len(calls) : calls[p].op = "addTrack" /\ calls[p].arg = stream

\* C11: in an addRoute command of the live node, every listed destination
\* that is in the registry gets the source's stream, whether or not a
\* destination listed before it is missing, and no step of the command takes
\* back a call it made on an earlier destination.
C11_MissingDestinationSkipped ==
    [][Routed(lastEvt') =>
          LET items == lastEvt'.req.items
              src == getClientById(clients, items[1])
          IN /\ \A j \in DOMAIN clients :
                    /\ SubSeq(clients'[j].log, 1, Len(clients[j].log)) = clients[j].log
                    /\ SubSeq(clients'[j].sent, 1, Len(clients[j].sent)) = clients[j].sent
             /\ (src # 0 /\ ~uncaught') =>
                    \A k \in 2..Len(items) :
                        LET d == getClientById(clients, items[k]) IN
                        d # 0 => Attached(NewCalls(clients[d], clients'[d]),
                                          clients[src].clientStreams[1])]_vars

\* alice was routed to bob, ghost and carol: ghost was reported missing and
\* carol, listed after it, has the stream
C11_Witness ==
    /\ Routed(lastEvt) /\ ~uncaught
    /\ lastEvt.req.items = <<"alice", "bob", "ghost", "carol">>
    /\ routingErrors = <<"ghost">>
    /\ getClientById(clients, "carol") # 0
    /\ Attached(clients[getClientById(clients, "carol")].log, "stream1")
    /\ Attached(clients[getClientById(clients, "bob")].log, "stream1")

\* the last step handled an addRoute command of the relay node
RelayRouted(evt) == evt.kind = "command" /\ evt.req.command = "addRoute"

\* the live destinations of a list that are not in the registry, in order
RECURSIVE MissingIn(_, _)
MissingIn(cs, ids) ==
    IF ids = <<>> THEN <<>>
    ELSE (IF getClientById(cs, Head(ids)) = 0 THEN <<Head(ids)>> ELSE <<>>)
             \o MissingIn(cs, Tail(ids))

\* C13: a route command whose source exists leaves a per-destination result
\* in which the failures are exactly the destinations absent from the
\* registry, on the live node and on the relay node.
C13_FailuresAreTheAbsentDestinations ==
    /\ (Routed(lastEvt) /\ getClientById(clients, lastEvt.req.items[1]) # 0) =>
           routingErrors = MissingIn(clients, Tail(lastEvt.req.items))
    /\ (RelayRouted(lastEvt) /\ RelayGetClientById(Clients, lastEvt.req.src_client) # 0) =>
           routingErrors = MissingOf(Clients, lastEvt.req.dest_clients)

\* C14: a route command whose source is not in the registry changes no
\* session: no stream is attached, no renegotiation is requested, and the
\* handler ends normally.
C14_UnknownSourceDoesNothing ==
    [][/\ (Routed(lastEvt') /\ getClientById(clients, lastEvt'.req.items[1]) = 0) =>
              (clients' = clients /\ ~uncaught')
       /\ (RelayRouted(lastEvt')
              /\ RelayGetClientById(Clients, lastEvt'.req.src_client) = 0) =>
              (Clients' = Clients /\ ~uncaught')]_vars

\* ghost was routed to bob, who is registered and was left alone
C14_Witness ==
    /\ Routed(lastEvt) /\ ~uncaught
    /\ lastEvt.req.items[1] = "ghost"
    /\ getClientById(clients, "ghost") = 0
    /\ \E k \in 2..Len(lastEvt.req.items) :
           LET d == getClientById(clients, lastEvt.req.items[k]) IN
           d # 0 /\ clients[d].pc = "open" /\ ~Attached(clients[d].log, "stream1")

\* session j is a destination of the command
DestinationOf(cs, items, j) ==
    \E k \in 2..Len(items) : getClientById(cs, items[k]) = j

\* the renegotiation requests session c issued that b had not: the renegotiate
\* messages of an accepting session, the createOffer calls of an initiating one
RenegotiationAfterAttach(b, c, stream) ==
    /\ \A m \in 1..Len(NewSent(b, c)) :
           NewSent(b, c)[m].msg.action = "renegotiate" =>
               \E p \in Len(b.log) + 1..NewSent(b, c)[m].after :
                   c.log[p].op = "addTrack" /\ c.log[p].arg = stream
    /\ \A q \in Len(b.log) + 1..Len(c.log) :
           c.log[q].op = "createOffer" =>
               \E p \in Len(b.log) + 1..q - 1 :
                   c.log[p].op = "addTrack" /\ c.log[p].arg = stream
Renegotiated(b, c) ==
    \/ \E m \in 1..Len(NewSent(b, c)) : NewSent(b, c)[m].msg.action = "renegotiate"
    \/ \E q \in 1..Len(NewCalls(b, c)) : NewCalls(b, c)[q].op = "createOffer"

IdxRouted(evt) ==
    /\ evt.kind = "socketMessage" /\ evt.ok = "ok"
    /\ idx.clients[evt.sess].isAdmin
    /\ evt.req.command = "connect" /\ evt.req.data = ArrayData
    /\ Len(evt.req.items) >= 1
    /\ IdxGetClientById(idx.clients, evt.req.items[1]) # 0
    /\ idx.clients[IdxGetClientById(idx.clients, evt.req.items[1])].clientStream # <<>>
    /\ \A k \in 2..Len(evt.req.items) :
           LET d == IdxGetClientById(idx.clients, evt.req.items[k]) IN
           d # 0 => idx.clients[d].pc = "open" /\ idx.clients[d].sock = "open"

\* positions of req.data that name a connected client and come after a
\* destination that names none
IdxAfterMissing(items) ==
    {k \in 2..Len(items) :
        /\ IdxGetClientById(idx.clients, items[k]) # 0
        /\ \E j \in 2..(k - 1) : IdxGetClientById(idx.clients, items[j]) = 0}

IdxReceived(c, stream) ==
    /\ \E n \in 1..Len(c.log) : c.log[n].op = "addTrack" /\ c.log[n].arg = stream
    /\ \E m \in 1..Len(c.sent) : c.sent[m].msg = RENEGOTIATE_RTC

\* C12: in the prototype's adminCommands a destination that is not among the
\* connected clients never prevents the destinations listed after it from
\* receiving the source's stream and a renegotiation request.
C12_MissingDestinationDoesNotStopTheRest ==
    IdxRouted(lastEvt) =>
        \A k \in IdxAfterMissing(lastEvt.req.items) :
            IdxReceived(idx.clients[IdxGetClientById(idx.clients, lastEvt.req.items[k])],
                        idx.clients[IdxGetClientById(idx.clients,
                                                     lastEvt.req.items[1])].clientStream[1])


(***************************************************************************)
(* Properties of the bootstrap.                                            *)
(***************************************************************************)
\* C16: however many notifications carry the assignment and however their
\* handlers interleave at the awaits, init opens one management socket,
\* starts one server and deletes the registration document once.
C16_HandoffRunsOnce ==
    /\ boot.managementSockets <= 1
    /\ boot.servers <= 1
    /\ boot.deletes <= 1

\* C17: no session is accepted while the registration document still exists
\* or the subscription is still active.
C17_AcceptsOnlyAfterCleanup ==
    clients # <<>> => boot.doc.state = "none" /\ ~boot.sub

\* C18: while no snapshot carrying an assignment has been read, the registry
\* is empty and there is no server.
C18_NoServerBeforeAssignment ==
    ~boot.observed => clients = <<>> /\ boot.servers = 0

\* a handler has read a snapshot without assignment and ended, the store has
\* since assigned, and that assignment has not been read yet
C18_Witness ==
    /\ ~boot.observed /\ boot.unassignedSeen
    /\ boot.doc.state = "assigned"
    /\ boot.servers = 0 /\ clients = <<>>


\* C19: once the store has set an assignment on the registration document,
\* the node eventually starts (opens its channel and accepts sessions), every
\* notification being delivered and every handler resuming.
C19_HandoffNeverMissed == boot.assignedOnce ~> (boot.servers >= 1)


(***************************************************************************)
(* Properties of the end of a session.                                     *)
(***************************************************************************)
\* C20: when the transport of a session has closed, the session is no longer
\* in the registry (a lookup of its identity does not return it) and its peer
\* connection is closed.
C20_ClosedSessionDestroyed ==
    /\ \A i \in DOMAIN clients : clients[i].sock # "closed"
    /\ \A i \in DOMAIN idx.clients : idx.clients[i].sock # "closed"
    /\ \A r \in DOMAIN idx.removed : idx.removed[r].pc = "closed"


(***************************************************************************)
(* Properties of message handling.                                         *)
(***************************************************************************)
\* the triggers whose async function is suspended in session c
Suspended(c) == {c.tasks[m].trig : m \in 1..Len(c.tasks)}

\* C21: once an accepting session is closed, the negotiation that was
\* suspended in the engine makes no further engine call and sends no answer.
C21_CloseCancelsNegotiation ==
    [][\A i \in Inbound :
          clients[i].pc = "closed" =>
              /\ \A k \in (Len(clients[i].log) + 1)..Len(clients'[i].log) :
                     clients'[i].log[k].trig \notin Suspended(clients[i])
              /\ \A k \in (Len(clients[i].sent) + 1)..Len(clients'[i].sent) :
                     clients'[i].sent[k].msg.action # "answer"]_vars


\* C22: no two sessions of the registry have the same bound identity, on the
\* live node and on the relay node.
C22_RegistryKeysUnique ==
    /\ \A i, j \in DOMAIN clients :
           (i # j /\ clients[i].id_ # <<>>) => clients[i].id_ # clients[j].id_
    /\ \A i, j \in DOMAIN Clients : i # j => Clients[i].id # Clients[j].id


\* C23: a text that cannot be decoded raises no exception and is dropped by
\* the session that receives it: the gate does not run, no identity is bound,
\* no engine call is made and the connection stays open.
C23_UndecodableTextDropped ==
    [][(lastEvt'.kind = "message" /\ lastEvt'.req.parseError) =>
          /\ ~uncaught'
          /\ lastEvt'.ok = "none"
          /\ clients' = clients]_vars

\* the session after a message that may only have bound its identity
SameButIdentity(c, d) == d = [c EXCEPT !.id_ = d.id_]

\* C24: an addICE message that passes the gate is ignored when its payload has
\* no candidate marker or is missing (no call, no exception, session open and
\* unchanged), and is passed to addIceCandidate once when it has one.
C24_IceWithoutCandidateIgnored ==
    [][\A i \in DOMAIN clients :
          (Handled(lastEvt', i) /\ lastEvt'.ok # "fail" /\ lastEvt'.req.action = "addICE") =>
              /\ ~uncaught'
              /\ IF HasCandidate(lastEvt'.req.data)
                 THEN clients'[i].log =
                          Append(clients[i].log,
                                 LogEntry("addIceCandidate", lastEvt'.req.data, 0))
                 ELSE SameButIdentity(clients[i], clients'[i])]_vars

\* C25: an accepting session with an open socket answers an authenticated
\* renegotiate message with a renegotiate message of its own.
C25_AcceptingSessionAsksPeer ==
    [][\A i \in Inbound :
          (Handled(lastEvt', i) /\ lastEvt'.ok = "ok" /\ lastEvt'.req.action = "renegotiate"
              /\ clients[i].sock = "open") =>
              /\ Len(clients'[i].sent) = Len(clients[i].sent) + 1
              /\ clients'[i].sent[Len(clients'[i].sent)].msg.action = "renegotiate"]_vars


\* the offers session c has sent
OffersOf(c) == {k \in 1..Len(c.sent) : c.sent[k].msg.action = "offer"}

\* every offer of c was sent by an initiating session for one of its triggers,
\* after createOffer and setLocalDescription of that trigger, one per trigger
OffersInOrder(c) ==
    \A k \in OffersOf(c) :
        /\ c.role = "outbound"
        /\ c.sent[k].trig \in 1..c.ntrig
        /\ \E p, q \in 1..c.sent[k].after :
               /\ p < q
               /\ c.log[p] = LogEntry("createOffer", Null, c.sent[k].trig)
               /\ c.log[q] = LogEntry("setLocalDescription", c.sent[k].msg.data, c.sent[k].trig)
        /\ \A l \in OffersOf(c) : l # k => c.sent[l].trig # c.sent[k].trig

\* the step handled a renegotiation trigger of session i
TriggerFor(evt, i) ==
    \/ evt.kind = "open" /\ evt.sess = i
    \/ evt.kind = "message" /\ evt.sess = i /\ evt.req.action = "renegotiate"
    \/ evt.kind = "management" /\ evt.req.action = "addRoute"

\* C26: an offer is sent only by an initiating session, for a renegotiation
\* trigger (its socket opening, a renegotiate message, a route) and after
\* createOffer and setLocalDescription; an accepting session never calls
\* createOffer and never sends an offer.
C26_OnlyInitiatorOffers ==
    [][\A i \in DOMAIN clients :
          LET c == clients[i]
              d == clients'[i]
          IN /\ OffersInOrder(d)
             /\ d.role = "inbound" =>
                    /\ OffersOf(d) = {}
                    /\ \A k \in 1..Len(d.log) : d.log[k].op # "createOffer"
             /\ \A k \in (Len(c.log) + 1)..Len(d.log) :
                    d.log[k].op = "createOffer" =>
                        /\ d.role = "outbound"
                        /\ TriggerFor(lastEvt', i)]_vars

\* an initiating session has sent the offer of its connect and then the offer
\* a renegotiate message asked for
C26_Witness ==
    \E i \in Outbound :
        /\ Cardinality(OffersOf(clients[i])) = 2
        /\ clients[i].tasks = <<>>
        /\ \E k \in 1..Len(clients[i].log) : clients[i].log[k].trig = 2


\* the actions the switch of each role has a case for
KnownActions(role) ==
    IF role = "inbound" THEN {"offer", "addICE"} ELSE {"answer", "renegotiate", "addICE"}

\* session i has just handled a message that passed the gate (or met none) and
\* whose action its role has no case for
UnknownHandled(evt, i, role) ==
    /\ Handled(evt, i) /\ evt.ok # "fail"
    /\ evt.req.action \notin KnownActions(role)

OperatorActions == {"setId", "addRoute", "connect"}

\* what the operator's actions do: set the node id, create a session, attach
\* a stream to a session or ask one to renegotiate
OperatorEffect(i) ==
    \/ clients'[i].log # clients[i].log
    \/ clients'[i].sent # clients[i].sent
    \/ clients'[i].tasks # clients[i].tasks
    \/ clients'[i].clientStreams # clients[i].clientStreams

\* C28: a setId, addRoute or connect message received on a client session
\* changes neither the node id nor the number of sessions, attaches no stream
\* and asks no session to renegotiate; a step with one of these effects
\* handled a message of the management socket.
C28_OperatorActionsOnlyFromManagement ==
    [][/\ (lastEvt'.kind = "message" /\ lastEvt'.req.action \in OperatorActions) =>
              /\ NODE_ID' = NODE_ID
              /\ Len(clients') = Len(clients)
              /\ \A j \in DOMAIN clients : ~OperatorEffect(j)
       /\ (NODE_ID' # NODE_ID \/ Len(clients') # Len(clients)
              \/ \E j \in DOMAIN clients : OperatorEffect(j)) =>
              lastEvt'.kind = "management"]_vars

\* an accepting session has just been sent, with its id and the right token,
\* an addRoute from a session that has a stream to a session that has none
C28_Witness ==
    /\ lastEvt.kind = "message" /\ lastEvt.ok = "ok"
    /\ lastEvt.req.action = "addRoute" /\ lastEvt.req.items = <<"alice", "bob">>
    /\ getClientById(clients, "alice") # 0 /\ getClientById(clients, "bob") # 0
    /\ clients[getClientById(clients, "alice")].clientStreams # <<>>
    /\ TrackCount(clients[getClientById(clients, "bob")]) = 0
    /\ NODE_ID = Absent


(***************************************************************************)
(* Properties of the relay transport.                                      *)
(***************************************************************************)
\* the accepting session of the live node that is bound to the identity of
\* relay client c
LiveTwin(c) == [ClientConnection("inbound", "open") EXCEPT !.id_ = <<c.id>>]

\* what InboundClient.onClientMessage decides on the message a document carries
LiveVerdict(c, action, data, docData) ==
    InboundOnClientMessage(LiveTwin(c), JsonText(action, data, docData.id, docData.token)).auth

\* C29: a document of the relay is applied to a client's engine only when the
\* live node would have accepted the same message on the session of that
\* identity: an offer or a candidate with a bad credential is not applied.
C29_RelayAcceptsWhatLiveAccepts ==
    [][\A i \in DOMAIN Clients :
          Clients'[i].log # Clients[i].log =>
              /\ lastEvt'.kind = "offer" =>
                     LiveVerdict(Clients[i], "offer", lastEvt'.req.offer, lastEvt'.req) = "ok"
              /\ lastEvt'.kind = "ice" =>
                     LiveVerdict(Clients[i], "addICE", lastEvt'.req.ice, lastEvt'.req) = "ok"]_vars

\* C30: for an added answer document of a registered client,
\* setRemoteDescription receives the document's answer field; for an added
\* ICE document, addIceCandidate receives its ice field.
C30_PayloadReadFromOwnField ==
    [][\A i \in DOMAIN Clients :
          (lastEvt'.kind \in {"answer", "ice"} /\ Clients[i].id = lastEvt'.req.id) =>
              LET c == Clients[i]
                  d == Clients'[i]
              IN /\ (lastEvt'.kind = "answer" /\ lastEvt'.req.answer # Absent) =>
                        d.log = Append(c.log, LogEntry("setRemoteDescription",
                                                       lastEvt'.req.answer, c.ntrig + 1))
                 /\ (lastEvt'.kind = "ice" /\ lastEvt'.req.ice # Absent) =>
                        d.log = Append(c.log, LogEntry("addIceCandidate",
                                                       lastEvt'.req.ice, 0))]_vars


(***************************************************************************)
(* Properties of closing.                                                  *)
(***************************************************************************)
\* C31: closing a session that is already closed raises nothing and leaves
\* the session, its socket, its peer connection and the registry as the first
\* close left them.
C31_CloseIdempotent ==
    [][\A i \in DOMAIN clients :
          (Handled(lastEvt', i) /\ lastEvt'.ok = "fail" /\ clients[i].pc = "closed") =>
              /\ ~uncaught'
              /\ clients' = clients
              /\ close(clients'[i]) = clients'[i]]_vars

\* carol's session, closed from the start, has just refused a second message
C31_Witness ==
    /\ lastEvt.kind = "message" /\ lastEvt.ok = "fail" /\ nEvents = 2
    /\ clients[lastEvt.sess].id_ = <<"carol">>
    /\ clients[lastEvt.sess].pc = "closed" /\ clients[lastEvt.sess].sock = "closing"
    /\ ~uncaught


(***************************************************************************)
(* Properties of the codec.                                                *)
(***************************************************************************)
\* a field of a JSON object carries a value
Present(x) == x \notin {Absent, Null}

\* C32: decoding a JSON object that omits some of action, data, id, token
\* raises nothing, leaves parseError false, gives each omitted field its
\* default ("" for action, id and token, null for data) and leaves each field
\* that carries a value as it is.
C32_AbsentFieldsDefaulted ==
    (lastEvt.kind = "decode" /\ lastEvt.req.text.json) =>
        LET t == lastEvt.req.text
            r == lastEvt.req.req
        IN /\ ~r.threw /\ ~r.parseError /\ ~uncaught
           /\ r.action = IF Present(t.action) THEN t.action ELSE ""
           /\ r.data = IF Present(t.data) THEN t.data ELSE Null
           /\ r.items = t.items
           /\ r.id = IF Present(t.id) THEN t.id ELSE ""
           /\ r.token = IF Present(t.token) THEN t.token ELSE ""

\* an object with an action and nothing else has been decoded
C32_Witness ==
    /\ lastEvt.kind = "decode" /\ lastEvt.req.text.json
    /\ lastEvt.req.text.action = "offer"
    /\ lastEvt.req.text.data = Absent /\ lastEvt.req.text.id = Absent
    /\ lastEvt.req.text.token = Absent
    /\ lastEvt.req.req.data = Null /\ lastEvt.req.req.id = "" /\ lastEvt.req.req.token = ""

\* C33: decoding a JSON object and encoding the request again with
\* credentials gives a text with the same action and data, and with the same
\* id and token wherever the object carried them; a field it did not carry
\* comes out as its default.
C33_DecodeEncodeRoundTrip ==
    lastEvt.kind = "encode" =>
        LET t == lastEvt.req.text
            o == lastEvt.req.out
        IN /\ o.json
           /\ o.action = IF Present(t.action) THEN t.action ELSE ""
           /\ o.data = IF Present(t.data) THEN t.data ELSE Null
           /\ o.items = t.items
           /\ Present(t.id) => o.id = t.id
           /\ Present(t.token) => o.token = t.token
           /\ ~Present(t.id) => o.id = ""
           /\ ~Present(t.token) => o.token = ""
           /\ SockRequest(o) = lastEvt.req.req

\* a route command with an array payload, an id and a token has made the
\* round trip
C33_Witness ==
    /\ lastEvt.kind = "encode"
    /\ lastEvt.req.text = JsonArrayText("addRoute", <<"alice", "bob">>, "alice", SharedSecret)
    /\ lastEvt.req.out = lastEvt.req.text


(***************************************************************************)
(* Properties of the initiating role.                                      *)
(***************************************************************************)
\* the setRemoteDescription calls session c has made
RemoteCalls(c) == {k \in 1..Len(c.log) : c.log[k].op = "setRemoteDescription"}

\* session c has sent an offer that no answer has been applied to yet
AwaitingAnswer(c) == Cardinality(OffersOf(c)) > Cardinality(RemoteCalls(c))

\* C34: an initiating session passes an answer to setRemoteDescription only
\* when it has sent an offer that still awaits its answer.
C34_AnswerOnlyCompletesOwnOffer ==
    [][\A i \in Outbound :
          (Handled(lastEvt', i) /\ lastEvt'.req.action = "answer"
              /\ ~AwaitingAnswer(clients[i])) =>
              RemoteCalls(clients'[i]) = RemoteCalls(clients[i])]_vars


(***************************************************************************)
(* Properties of the identity of a session.                                *)
(***************************************************************************)
\* the last step handled a decodable message on session i of the prototype
ProtoHandled(evt, i) == evt.kind = "socketMessage" /\ evt.sess = i /\ ~evt.req.parseError

\* the message carries no id
NoId(req) == req.id \in {Absent, ""}

\* C35: an accepting session whose first message carries no id is bound by it
\* (to the empty identity), and a later message with a non-empty id fails
\* authentication and leaves the binding as it is.
C35_EmptyIdentityIsBound ==
    [][/\ \A i \in Inbound :
              Handled(lastEvt', i) =>
                  /\ (clients[i].id_ = <<>> /\ NoId(lastEvt'.req)) => clients'[i].id_ = <<"">>
                  /\ (clients[i].id_ = <<"">> /\ ~NoId(lastEvt'.req)) =>
                         (lastEvt'.ok = "fail" /\ clients'[i].id_ = <<"">>)
       /\ \A i \in DOMAIN protoClients :
              ProtoHandled(lastEvt', i) =>
                  /\ (protoClients[i].id_ = <<>> /\ NoId(lastEvt'.req)) =>
                         protoClients'[i].id_ # <<>>
                  /\ (protoClients[i].log # <<>> /\ ~NoId(lastEvt'.req)
                          /\ protoClients[i].id_ # <<lastEvt'.req.id>>) =>
                         (lastEvt'.ok = "fail"
                             /\ protoClients'[i].id_ = protoClients[i].id_)]_vars


\* C37: the identity of an accepting session is the id of the first decodable
\* message it received, with a good token or a bad one: that message binds
\* it, nothing else does, and nothing changes it afterwards.
C37_IdentityIsFirstMessageId ==
    [][\A i \in Inbound :
          /\ (Handled(lastEvt', i) /\ clients[i].id_ = <<>>) =>
                 clients'[i].id_ = <<lastEvt'.req.id>>
          /\ clients[i].id_ # <<>> => clients'[i].id_ = clients[i].id_
          /\ (clients[i].id_ = <<>> /\ clients'[i].id_ # <<>>) => Handled(lastEvt', i)]_vars

\* the first message of the only session carried a bad token: the session is
\* bound to its id and closed
C37_Witness ==
    /\ Len(clients) = 1 /\ nEvents = 2
    /\ lastEvt.kind = "message" /\ lastEvt.ok = "fail"
    /\ lastEvt.req.id = "alice" /\ lastEvt.req.token = "bad"
    /\ clients[1].role = "inbound" /\ clients[1].id_ = <<"alice">>
    /\ clients[1].pc = "closed"

(***************************************************************************)
(* Properties of the registry lookup.                                      *)
(***************************************************************************)
\* session c is open
IsOpen(c) == c.pc = "open" /\ c.sock \in {"connecting", "open"}

\* C38: a lookup returns open sessions only, and a route command makes no
\* call on a session that an authentication failure has closed: it attaches
\* nothing to it, asks it for no renegotiation and raises nothing on it.
C38_LookupReturnsOpenSessions ==
    [][/\ \A id \in RouteIds :
              getClientById(clients', id) # 0 => IsOpen(clients'[getClientById(clients', id)])
       /\ (lastEvt'.kind = "management" /\ lastEvt'.req.action = "addRoute"
              /\ lastEvt'.req.data # Null) =>
              \A i \in DOMAIN clients :
                  (clients[i].pc = "closed"
                      /\ \E j \in 2..Len(lastEvt'.req.items) :
                             lastEvt'.req.items[j] = ClientId(clients[i])) =>
                      (clients'[i] = clients[i] /\ ~uncaught')]_vars

\* C39: a lookup returns a session only for the identity bound on it, and a
\* session without a bound identity is returned for no key: a route command
\* that names the empty identity leaves every such session as it was.
C39_LookupReturnsBoundSessions ==
    [][(lastEvt'.kind = "management" /\ lastEvt'.req.action = "addRoute") =>
          /\ \A id \in RouteIds :
                 getClientById(clients, id) # 0 =>
                     clients[getClientById(clients, id)].id_ = <<id>>
          /\ \A i \in DOMAIN clients :
                 clients[i].id_ = <<>> => clients'[i] = clients[i]]_vars

\* the route command of the step names a source that is registered under its
\* bound identity and has received no stream
RoutedWithoutStream(evt, cs) ==
    /\ evt.kind = "management" /\ evt.req.action = "addRoute"
    /\ evt.req.data # Null /\ Len(evt.req.items) >= 1
    /\ getClientById(cs, evt.req.items[1]) # 0
    /\ cs[getClientById(cs, evt.req.items[1])].id_ = <<evt.req.items[1]>>
    /\ cs[getClientById(cs, evt.req.items[1])].clientStreams = <<>>

\* C40: a route command whose source is registered but has no stream yet
\* raises nothing, attaches nothing and leaves every session as it was.
C40_RouteWithoutStreamDoesNothing ==
    [][RoutedWithoutStream(lastEvt', clients) => (~uncaught' /\ clients' = clients)]_vars

(***************************************************************************)
(* Properties of the relay node's bootstrap.                               *)
(***************************************************************************)
\* C36: in the bootstrap of the relay node the handoff runs once, however
\* many notifications show the node as registered: the router is started
\* once (one set of subscriptions) and the registration document is deleted
\* once.
C36_RelayHandoffRunsOnce == boot.servers <= 1 /\ boot.deletes <= 1

====
